---- MODULE Spec2Model ----
(***************************************************************************)
(* Consumer-group lag accounting (GET /api/kafka/topic-metrics), the       *)
(* topic listing with its figures (GET /api/kafka/topics), the             *)
(* forced removal of consumer groups (DELETE /api/kafka/consumer-groups),  *)
(* the message poll (POST /api/kafka/messages) and the message browser     *)
(* that issues the polls (TopicMessages.tsx) of kafka-ui, as state         *)
(* machines.  Every await on a cluster call is one step; what the cluster  *)
(* answers is chosen at the step that asks.                                *)
(***************************************************************************)
EXTENDS Integers, Sequences, FiniteSets, Bags, TLC

VARIABLES
    \* ---- GET /api/kafka/topic-metrics (one request)
    pc,                 \* where the handler stands
    admin,              \* the admin client's connection: "none", "connected", "disconnected"
    topicOffsets,       \* const topicOffsets (route.ts:37)
    totalMessages,      \* let totalMessages (route.ts:40)
    consumerGroups,     \* consumerGroups.groups, as the list of its groupIds (route.ts:48)
    gi,                 \* position of the for..of loop over consumerGroups.groups (route.ts:55)
    fetched,            \* admin.fetchOffsets of the group just processed (route.ts:61):
                        \* whether it threw, and the offsets it answered
    consumerGroupLags,  \* const consumerGroupLags (route.ts:51)
    response,           \* the NextResponse the handler returned
    \* ---- DELETE /api/kafka/consumer-groups (one request)
    request,            \* the request body (consumer-groups/route.ts:214-220)
    dpc,                \* where the DELETE handler stands
    plainAdmin,         \* the admin client of the plain path (route.ts:268)
    deleteError,        \* the error the inner catch holds (route.ts:322)
    httpResponse,       \* the NextResponse DELETE returned
    \* ---- forceRemoveGroup (one run)
    fpc,                \* where forceRemoveGroup stands
    forcedAdmin,        \* its admin client (route.ts:35)
    groupInfo,          \* what admin.describeGroups answered (route.ts:43)
    needsDeactivation,  \* let needsDeactivation (route.ts:41)
    consumer,           \* the temporary consumer of the rebalance nudge (route.ts:59)
    groupOffsets,       \* const offsets (route.ts:85)
    ri,                 \* position of the loop over offsets (route.ts:89)
    attempt,            \* let attempt (route.ts:109)
    result,             \* what the run returns or throws
    calls,              \* the cluster calls issued so far, in order
    \* ---- POST /api/kafka/messages (one poll)
    body,               \* the request body (messages/route.ts:26-36)
    logEnd,             \* the topic: per partition, the offset after its last message
    mpc,                \* where the handler and the body of runConsumer stand
    pollConsumer,       \* the consumer (route.ts:64)
    pollAdmin,          \* the admin client of the first poll in latest mode (route.ts:207)
    position,           \* per partition, the offset the consumer reads next
    si,                 \* position of the loops over the seeks (route.ts:178, 226)
    seeks,              \* the consumer.seek calls issued so far, in order
    messages,           \* let messages (route.ts:78)
    messageCount,       \* let messageCount (route.ts:79)
    promise,            \* the promise runConsumer returns (route.ts:83)
    thrown,             \* the error on its way to the catch of route.ts:269, "" if none
    timer,              \* the timeout of route.ts:259: "unset", "armed", "fired"
    pollResponse,       \* the NextResponse POST returned
    \* ---- the message browser (components/topics/TopicMessages.tsx)
    searchParams,       \* const [searchParams, setSearchParams] (TopicMessages.tsx:21)
    highestOffsets,     \* highestOffsets.current (TopicMessages.tsx:31)
    allMessages,        \* allMessages.current (TopicMessages.tsx:33)
    polls,              \* the runs of the query function that await their response,
                        \* a bag: two runs may be alike
    hasData,            \* whether the query of these searchParams has data
                        \* (data !== undefined, TopicMessages.tsx:80)
    messagesData,       \* the run that finished last: the autoRefresh it closed over,
                        \* whether its response held no message, and the messages
                        \* it returned
    searches,           \* calls of handleSearch so far
    produced,           \* messages produced from the page so far
    resets              \* times the two refs were reset so far

VARIABLES
    \* ---- GET /api/kafka/topics (one request, the cluster holding one topic at most)
    lpc,                \* where the handler stands
    listAdmin,          \* the admin client's connection
    listedTopics,       \* metadata.topics, as the list of the names (part_000:58-61)
    listTopicOffsets,   \* const topicOffsets of the topic's callback (part_000:68)
    listTotalMessages,  \* let totalMessages (part_000:71)
    listConsumerGroups, \* consumerGroups.groups, as the list of its groupIds (part_000:79)
    lgi,                \* position of the for..of loop over the groups (part_000:82)
    listFetched,        \* admin.fetchOffsets of the group just processed (part_000:84)
    totalLag,           \* let totalLag (part_000:80)
    topicsWithMetrics,  \* what the callback of the topic returned (part_000:108-118)
    listResponse        \* the NextResponse the handler returned

metricsVars == <<pc, admin, topicOffsets, totalMessages, consumerGroups, gi,
                 fetched, consumerGroupLags, response>>

deleteVars == <<request, dpc, plainAdmin, deleteError, httpResponse>>

forceVars == <<fpc, forcedAdmin, groupInfo, needsDeactivation, consumer, groupOffsets,
               ri, attempt, result>>

topicsVars == <<lpc, listAdmin, listedTopics, listTopicOffsets, listTotalMessages,
                listConsumerGroups, lgi, listFetched, totalLag, topicsWithMetrics,
                listResponse>>

removeVars == <<deleteVars, forceVars, calls>>

pollVars == <<body, logEnd, mpc, pollConsumer, pollAdmin, position, si, seeks, messages,
              messageCount, promise, thrown, timer, pollResponse>>

browseVars == <<searchParams, highestOffsets, allMessages, polls, hasData, messagesData,
                searches, produced, resets>>

vars == <<metricsVars, topicsVars, removeVars, pollVars, browseVars>>

-----------------------------------------------------------------------------
(* Bounds and input domains                                                *)

MaxPartitions == 2
MaxGroups == 2

TopicName == "orders"
OtherTopic == "payments"

\* Offsets travel as decimal strings (kafkajs: low, high, offset are strings).
\* The numbers the strings of the model spell.
Numerals == -1 .. 5

\* (low, high) watermark strings a partition may report, low <= high.
Watermarks == { <<"0", "0">>, <<"0", "2">>, <<"1", "3">> }

\* committed offsets a group may report for a partition; "-1" = none committed.
CommittedOffsets == { "-1", "0", "2", "4" }

\* group ids the cluster may list; "" is a group without id (route.ts:58).
GroupIds == { "", "g1", "g2" }

-----------------------------------------------------------------------------
(* Pure helpers, as the code computes them                                 *)

\* parseInt(s) of a decimal string: the number it spells.
ParseInt(s) == CHOOSE n \in Numerals : ToString(n) = s

\* x || 0 on a number: the falsy numbers (0, NaN) give 0.  The offsets of the
\* model are decimal strings, so NaN does not arise.
OrZero(x) == IF x = 0 THEN 0 ELSE x

MathMax(a, b) == IF a >= b THEN a ELSE b

RECURSIVE SumDiff(_, _)
\* the loop of route.ts:41-45: totalMessages += high - low
SumDiff(tos, i) ==
    IF i > Len(tos) THEN 0
    ELSE (ParseInt(tos[i].high) - ParseInt(tos[i].low)) + SumDiff(tos, i + 1)

RECURSIVE SumHigh(_, _)
\* a total that forgets the low watermark
SumHigh(tos, i) ==
    IF i > Len(tos) THEN 0
    ELSE ParseInt(tos[i].high) + SumHigh(tos, i + 1)

TotalMessagesHighOnly(tos) == SumHigh(tos, 1)

TotalMessages(tos) == SumDiff(tos, 1)

\* topicOffsets.find((to) => to.partition === p): index of the first match, 0 if none
FindTopicOffset(tos, p) ==
    IF \E i \in 1 .. Len(tos) : tos[i].partition = p
    THEN CHOOSE i \in 1 .. Len(tos) :
            /\ tos[i].partition = p
            /\ \A j \in 1 .. (i - 1) : tos[j].partition # p
    ELSE 0

\* offsets.find((offsetData) => offsetData.topic === topicName): index or 0
FindTopicOffsetData(offs, topic) ==
    IF \E i \in 1 .. Len(offs) : offs[i].topic = topic
    THEN CHOOSE i \in 1 .. Len(offs) :
            /\ offs[i].topic = topic
            /\ \A j \in 1 .. (i - 1) : offs[j].topic # topic
    ELSE 0

\* a scan that takes "-1" for a committed offset
IsSentinelNever(offset) == FALSE

\* route.ts:78 - partitions with no committed offset are skipped
IsSentinel(offset) == offset = "-1"

\* a lag that is not clamped at 0
PartitionLagUnclamped(high, offset) ==
    OrZero(ParseInt(high)) - OrZero(ParseInt(offset))

\* route.ts:87-89
PartitionLag(high, offset) ==
    LET consumerOffset == OrZero(ParseInt(offset))
        highWatermark == OrZero(ParseInt(high))
    IN  MathMax(0, highWatermark - consumerOffset)

RECURSIVE GroupScan(_, _, _, _)
\* the loop of route.ts:76-92 from partition data i on, given the running
\* groupLag and isConsumingTopic; yields <<groupLag, isConsumingTopic>>
GroupScan(parts, tos, i, acc) ==
    IF i > Len(parts) THEN acc
    ELSE IF IsSentinel(parts[i].offset) THEN GroupScan(parts, tos, i + 1, acc)
    ELSE LET k == FindTopicOffset(tos, parts[i].partition)
         IN  IF k = 0 THEN GroupScan(parts, tos, i + 1, acc)
             ELSE GroupScan(parts, tos, i + 1,
                            <<acc[1] + PartitionLag(tos[k].high, parts[i].offset), TRUE>>)

\* route.ts:73-100: consumerGroupLags after one group whose fetchOffsets answered offs
PushGroupLag(lags, groupId, offs, tos) ==
    LET d == FindTopicOffsetData(offs, TopicName)
    IN  IF d = 0 THEN lags
        ELSE LET r == GroupScan(offs[d].partitions, tos, 1, <<0, FALSE>>)
             IN  IF r[2] THEN Append(lags, [groupId |-> groupId, lag |-> r[1]])
                 ELSE lags

RECURSIVE MaxLag(_, _)
\* Math.max(...consumerGroupLags.map((g) => g.lag)) (route.ts:115)
MaxLag(lags, i) ==
    IF i = Len(lags) THEN lags[i].lag
    ELSE MathMax(lags[i].lag, MaxLag(lags, i + 1))

\* a total lag that falls back to totalMessages when the maximum is 0 (max || total)
TotalLagOrTotal(lags, total) ==
    IF Len(lags) > 0 /\ MaxLag(lags, 1) # 0 THEN MaxLag(lags, 1) ELSE total

\* a total lag that is the lag of the group processed first
TotalLagOfFirst(lags, total) == IF Len(lags) > 0 THEN lags[1].lag ELSE total

\* route.ts:113-116
TotalLag(lags, total) == IF Len(lags) > 0 THEN MaxLag(lags, 1) ELSE total

-----------------------------------------------------------------------------
(* What the cluster may answer                                             *)

\* fetchTopicOffsets: one entry per partition 0..n-1
TopicOffsetsOf(n) ==
    { [i \in 1 .. n |-> [partition |-> i - 1, low |-> w[i][1], high |-> w[i][2]]] :
        w \in [1 .. n -> Watermarks] }

TopicOffsetsAnswers == UNION { TopicOffsetsOf(n) : n \in 0 .. MaxPartitions }

\* listGroups: up to MaxGroups distinct groups, in any order
GroupLists ==
    UNION { { s \in [1 .. n -> GroupIds] : \A i, j \in 1 .. n : i # j => s[i] # s[j] } :
            n \in 0 .. MaxGroups }

PartitionDataOf(m) ==
    { [i \in 1 .. m |-> [partition |-> i - 1, offset |-> c[i]]] :
        c \in [1 .. m -> CommittedOffsets] }

\* fetchOffsets({groupId, topics: [topicName]}): nothing, another topic's data,
\* or the topic's partitions (which need not be those fetchTopicOffsets listed)
FetchOffsetsAnswers ==
    { <<>>, << [topic |-> OtherTopic, partitions |-> <<>>] >> }
    \cup { << [topic |-> TopicName, partitions |-> p] >> :
            p \in UNION { PartitionDataOf(m) : m \in 0 .. MaxPartitions } }

-----------------------------------------------------------------------------
(* GET /api/kafka/topic-metrics                                            *)

NoFetch == [threw |-> FALSE, offsets |-> <<>>]
NoMetrics == [totalMessages |-> 0, lag |-> 0, consumerGroupLags |-> <<>>]
NoResponse == [status |-> 0, error |-> "", details |-> "", hasMetrics |-> FALSE,
               metrics |-> NoMetrics]

\* route.ts:128-137: the outer catch
CatchAll(failedCall) ==
    /\ response' = [status |-> 500, error |-> "Failed to fetch topic metrics",
                    details |-> failedCall, hasMetrics |-> FALSE, metrics |-> NoMetrics]
    /\ pc' = "done"

MetricsStart ==
    /\ pc = "start"
    /\ admin = "none"
    /\ topicOffsets = <<>>
    /\ totalMessages = 0
    /\ consumerGroups = <<>>
    /\ gi = 1
    /\ fetched = NoFetch
    /\ consumerGroupLags = <<>>
    /\ response = NoResponse

\* route.ts:6-25: the query parameters
Validate ==
    /\ pc = "start"
    /\ \E brokersParam \in BOOLEAN, topicParam \in BOOLEAN :
        IF ~brokersParam
        THEN /\ response' = [NoResponse EXCEPT !.status = 400,
                                !.error = "Broker information is required"]
             /\ pc' = "done"
        ELSE IF ~topicParam
        THEN /\ response' = [NoResponse EXCEPT !.status = 400,
                                !.error = "Topic name is required"]
             /\ pc' = "done"
        ELSE /\ pc' = "connect"
             /\ UNCHANGED response
    /\ UNCHANGED <<admin, topicOffsets, totalMessages, consumerGroups, gi, fetched,
                   consumerGroupLags>>
    /\ UNCHANGED <<topicsVars, removeVars, pollVars, browseVars>>

\* route.ts:33-34
AdminConnect ==
    /\ pc = "connect"
    /\ \E ok \in BOOLEAN :
        IF ok
        THEN /\ admin' = "connected"
             /\ pc' = "fetchTopicOffsets"
             /\ UNCHANGED response
        ELSE /\ CatchAll("connect")
             /\ UNCHANGED admin
    /\ UNCHANGED <<topicOffsets, totalMessages, consumerGroups, gi, fetched,
                   consumerGroupLags>>
    /\ UNCHANGED <<topicsVars, removeVars, pollVars, browseVars>>

\* route.ts:37-45
FetchTopicOffsets ==
    /\ pc = "fetchTopicOffsets"
    /\ \/ \E tos \in TopicOffsetsAnswers :
            /\ topicOffsets' = tos
            /\ totalMessages' = TotalMessages(tos)
            /\ pc' = "listGroups"
            /\ UNCHANGED response
       \/ /\ CatchAll("fetchTopicOffsets")
          /\ UNCHANGED <<topicOffsets, totalMessages>>
    /\ UNCHANGED <<admin, consumerGroups, gi, fetched, consumerGroupLags>>
    /\ UNCHANGED <<topicsVars, removeVars, pollVars, browseVars>>

\* route.ts:48-54
ListGroups ==
    /\ pc = "listGroups"
    /\ \/ \E gs \in GroupLists :
            /\ consumerGroups' = gs
            /\ gi' = 1
            /\ pc' = "groups"
            /\ UNCHANGED response
       \/ /\ CatchAll("listGroups")
          /\ UNCHANGED <<consumerGroups, gi>>
    /\ UNCHANGED <<admin, topicOffsets, totalMessages, fetched, consumerGroupLags>>
    /\ UNCHANGED <<topicsVars, removeVars, pollVars, browseVars>>

\* a per-group catch that rethrows to the outer catch
CatchGroupErrorRethrow ==
    /\ CatchAll("fetchOffsets")
    /\ UNCHANGED consumerGroupLags

\* route.ts:101-107: the per-group catch logs and goes on to the next group
CatchGroupError ==
    /\ UNCHANGED <<consumerGroupLags, pc, response>>

\* route.ts:55-108: one turn of the loop over the groups
GroupTurn ==
    /\ pc = "groups"
    /\ gi <= Len(consumerGroups)
    /\ LET groupId == consumerGroups[gi]
       IN  IF groupId = ""
           THEN \* route.ts:58
                /\ fetched' = NoFetch
                /\ UNCHANGED <<consumerGroupLags, pc, response>>
           ELSE \/ \E offs \in FetchOffsetsAnswers :
                     /\ fetched' = [threw |-> FALSE, offsets |-> offs]
                     /\ consumerGroupLags' =
                            PushGroupLag(consumerGroupLags, groupId, offs, topicOffsets)
                     /\ UNCHANGED <<pc, response>>
                \/ \* admin.fetchOffsets threw
                   /\ fetched' = [threw |-> TRUE, offsets |-> <<>>]
                   /\ CatchGroupError
    /\ gi' = gi + 1
    /\ UNCHANGED <<admin, topicOffsets, totalMessages, consumerGroups>>
    /\ UNCHANGED <<topicsVars, removeVars, pollVars, browseVars>>

\* route.ts:113-127: after the loop
AdminDisconnect ==
    /\ pc = "groups"
    /\ gi > Len(consumerGroups)
    /\ \E ok \in BOOLEAN :
        IF ok
        THEN /\ admin' = "disconnected"
             /\ response' =
                    [status |-> 200, error |-> "", details |-> "", hasMetrics |-> TRUE,
                     metrics |-> [totalMessages |-> totalMessages,
                                  lag |-> TotalLag(consumerGroupLags, totalMessages),
                                  consumerGroupLags |-> consumerGroupLags]]
             /\ pc' = "done"
        ELSE /\ CatchAll("disconnect")
             /\ UNCHANGED admin
    /\ UNCHANGED <<topicOffsets, totalMessages, consumerGroups, gi, fetched,
                   consumerGroupLags>>
    /\ UNCHANGED <<topicsVars, removeVars, pollVars, browseVars>>

NextMetrics ==
    \/ Validate
    \/ AdminConnect
    \/ FetchTopicOffsets
    \/ ListGroups
    \/ GroupTurn
    \/ AdminDisconnect


-----------------------------------------------------------------------------
(* GET /api/kafka/topics (part_000:34-136)                                  *)

\* admin.listTopics(): the cluster holds no topic, or the topic
TopicLists == { <<>>, <<TopicName>> }

\* part_000:94-99: no sentinel test, no || 0
ListPartitionLag(high, offset) == MathMax(0, ParseInt(high) - ParseInt(offset))

RECURSIVE ListGroupLag(_, _, _)
\* the loop of part_000:89-102 from partition data i on: what it adds to totalLag
ListGroupLag(parts, tos, i) ==
    IF i > Len(parts) THEN 0
    ELSE LET k == FindTopicOffset(tos, parts[i].partition)
         IN  (IF k = 0 THEN 0 ELSE ListPartitionLag(tos[k].high, parts[i].offset))
                + ListGroupLag(parts, tos, i + 1)

NoTopicMetrics == [hasMetrics |-> FALSE, totalMessages |-> 0, lag |-> 0]
NoListResponse == [status |-> 0, error |-> "", details |-> "", topics |-> <<>>]

\* part_000:126-135: the outer catch
ListCatch(failedCall) ==
    /\ listResponse' = [status |-> 500, error |-> "Failed to list Kafka topics",
                        details |-> failedCall, topics |-> <<>>]
    /\ lpc' = "done"

\* part_000:116-119: the catch of the callback returns the topic without metrics
CatchMetricsError ==
    /\ topicsWithMetrics' = NoTopicMetrics
    /\ lpc' = "disconnect"

TopicsStart ==
    /\ lpc = "start"
    /\ listAdmin = "none"
    /\ listedTopics = <<>>
    /\ listTopicOffsets = <<>>
    /\ listTotalMessages = 0
    /\ listConsumerGroups = <<>>
    /\ lgi = 1
    /\ listFetched = NoFetch
    /\ totalLag = 0
    /\ topicsWithMetrics = NoTopicMetrics
    /\ listResponse = NoListResponse

\* part_000:36-48: the query parameters
ListValidate ==
    /\ lpc = "start"
    /\ \E brokersParam \in BOOLEAN :
        IF ~brokersParam
        THEN /\ listResponse' = [NoListResponse EXCEPT !.status = 400,
                                    !.error = "Broker information is required"]
             /\ lpc' = "done"
        ELSE /\ lpc' = "connect"
             /\ UNCHANGED listResponse
    /\ UNCHANGED <<listAdmin, listedTopics, listTopicOffsets, listTotalMessages,
                   listConsumerGroups, lgi, listFetched, totalLag, topicsWithMetrics>>
    /\ UNCHANGED <<metricsVars, removeVars, pollVars, browseVars>>

\* part_000:56-57
ListConnect ==
    /\ lpc = "connect"
    /\ \E ok \in BOOLEAN :
        IF ok
        THEN /\ listAdmin' = "connected"
             /\ lpc' = "listTopics"
             /\ UNCHANGED listResponse
        ELSE /\ ListCatch("connect")
             /\ UNCHANGED listAdmin
    /\ UNCHANGED <<listedTopics, listTopicOffsets, listTotalMessages, listConsumerGroups,
                   lgi, listFetched, totalLag, topicsWithMetrics>>
    /\ UNCHANGED <<metricsVars, removeVars, pollVars, browseVars>>

\* part_000:58
ListTopics ==
    /\ lpc = "listTopics"
    /\ \/ \E ts \in TopicLists :
            /\ listedTopics' = ts
            /\ lpc' = "fetchTopicMetadata"
            /\ UNCHANGED listResponse
       \/ /\ ListCatch("listTopics")
          /\ UNCHANGED listedTopics
    /\ UNCHANGED <<listAdmin, listTopicOffsets, listTotalMessages, listConsumerGroups, lgi,
                   listFetched, totalLag, topicsWithMetrics>>
    /\ UNCHANGED <<metricsVars, removeVars, pollVars, browseVars>>

\* part_000:61-66: the metadata of the listed topics, and the callback of
\* every topic is started; with no topic Promise.all resolves at once
FetchTopicMetadata ==
    /\ lpc = "fetchTopicMetadata"
    /\ \/ /\ lpc' = IF listedTopics = <<>> THEN "disconnect" ELSE "fetchTopicOffsets"
          /\ UNCHANGED listResponse
       \/ ListCatch("fetchTopicMetadata")
    /\ UNCHANGED <<listAdmin, listedTopics, listTopicOffsets, listTotalMessages,
                   listConsumerGroups, lgi, listFetched, totalLag, topicsWithMetrics>>
    /\ UNCHANGED <<metricsVars, removeVars, pollVars, browseVars>>

\* part_000:68-76
ListFetchTopicOffsets ==
    /\ lpc = "fetchTopicOffsets"
    /\ \/ \E tos \in TopicOffsetsAnswers :
            /\ listTopicOffsets' = tos
            /\ listTotalMessages' = TotalMessages(tos)
            /\ lpc' = "listGroups"
            /\ UNCHANGED topicsWithMetrics
       \/ /\ CatchMetricsError
          /\ UNCHANGED <<listTopicOffsets, listTotalMessages>>
    /\ UNCHANGED <<listAdmin, listedTopics, listConsumerGroups, lgi, listFetched, totalLag,
                   listResponse>>
    /\ UNCHANGED <<metricsVars, removeVars, pollVars, browseVars>>

\* part_000:79-80
ListListGroups ==
    /\ lpc = "listGroups"
    /\ \/ \E gs \in GroupLists :
            /\ listConsumerGroups' = gs
            /\ lgi' = 1
            /\ totalLag' = 0
            /\ lpc' = "groups"
            /\ UNCHANGED topicsWithMetrics
       \/ /\ CatchMetricsError
          /\ UNCHANGED <<listConsumerGroups, lgi, totalLag>>
    /\ UNCHANGED <<listAdmin, listedTopics, listTopicOffsets, listTotalMessages, listFetched,
                   listResponse>>
    /\ UNCHANGED <<metricsVars, removeVars, pollVars, browseVars>>

\* part_000:82-106: one turn of the loop over the groups; offsets[0] of an
\* empty answer is undefined, and reading its partitions throws into the
\* catch of the turn, as a failed fetchOffsets does
ListGroupTurn ==
    /\ lpc = "groups"
    /\ lgi <= Len(listConsumerGroups)
    /\ \/ \E offs \in FetchOffsetsAnswers :
            /\ listFetched' = [threw |-> FALSE, offsets |-> offs]
            /\ totalLag' = IF offs = <<>> THEN totalLag
                           ELSE totalLag + ListGroupLag(offs[1].partitions, listTopicOffsets, 1)
       \/ /\ listFetched' = [threw |-> TRUE, offsets |-> <<>>]
          /\ UNCHANGED totalLag
    /\ lgi' = lgi + 1
    /\ UNCHANGED <<lpc, listAdmin, listedTopics, listTopicOffsets, listTotalMessages,
                   listConsumerGroups, topicsWithMetrics, listResponse>>
    /\ UNCHANGED <<metricsVars, removeVars, pollVars, browseVars>>

\* part_000:108-115: the callback returns the topic with its metrics
ReturnTopicMetrics ==
    /\ lpc = "groups"
    /\ lgi > Len(listConsumerGroups)
    /\ topicsWithMetrics' = [hasMetrics |-> TRUE, totalMessages |-> listTotalMessages,
                             lag |-> totalLag]
    /\ lpc' = "disconnect"
    /\ UNCHANGED <<listAdmin, listedTopics, listTopicOffsets, listTotalMessages,
                   listConsumerGroups, lgi, listFetched, totalLag, listResponse>>
    /\ UNCHANGED <<metricsVars, removeVars, pollVars, browseVars>>

\* part_000:123-125
ListDisconnect ==
    /\ lpc = "disconnect"
    /\ \E ok \in BOOLEAN :
        IF ok
        THEN /\ listAdmin' = "disconnected"
             /\ listResponse' =
                    [status |-> 200, error |-> "", details |-> "",
                     topics |-> [i \in 1 .. Len(listedTopics) |->
                                    [name |-> listedTopics[i], metrics |-> topicsWithMetrics]]]
             /\ lpc' = "done"
        ELSE /\ ListCatch("disconnect")
             /\ UNCHANGED listAdmin
    /\ UNCHANGED <<listedTopics, listTopicOffsets, listTotalMessages, listConsumerGroups,
                   lgi, listFetched, totalLag, topicsWithMetrics>>
    /\ UNCHANGED <<metricsVars, removeVars, pollVars, browseVars>>

NextTopics ==
    \/ ListValidate
    \/ ListConnect
    \/ ListTopics
    \/ FetchTopicMetadata
    \/ ListFetchTopicOffsets
    \/ ListListGroups
    \/ ListGroupTurn
    \/ ReturnTopicMetrics
    \/ ListDisconnect

-----------------------------------------------------------------------------
(* DELETE /api/kafka/consumer-groups and forceRemoveGroup: values          *)

MaxMembers == 2

\* consumer-groups/route.ts:109 - for (let attempt = 0; attempt < 3; attempt++)
MaxDeleteAttempts == 3
\* consumer-groups/route.ts:118 - if (attempt < 2): no wait after the last attempt
LastWaitedAttempt == 2

\* group ids a request may name; "" is a missing groupId
UiGroup == "kafka-ui-browser"
ServiceGroup == "orders-service"
RequestGroupIds == { "", UiGroup, ServiceGroup }

\* a group id for which no prefix counts as the UI's
StartsWithKafkaUiNever(groupId) == FALSE

\* groupId.startsWith('kafka-ui-'), on the group ids of the model
StartsWithKafkaUi(groupId) == groupId \in { UiGroup }

Requests ==
    [brokers : BOOLEAN, groupId : RequestGroupIds, force : BOOLEAN, specialRemove : BOOLEAN]

\* an error: its name and its message, the message as the parts of its template
ClusterError(call) == [name |-> "KafkaJSError", message |-> <<call, " failed">>]
DeleteGroupsError ==
    [name |-> "KafkaJSDeleteGroupsError", message |-> <<"Error in DeleteGroups">>]
NoError == [name |-> "", message |-> <<>>]

\* one cluster call: the operation, its argument, whether it succeeded
Call(op, arg, ok) == [op |-> op, arg |-> arg, ok |-> ok]

\* route.ts:112-115
ForceRemoved(groupId) ==
    [kind |-> "return", success |-> TRUE,
     message |-> <<"Consumer group \"", groupId, "\" force removed successfully">>,
     details |-> "", error |-> NoError]

\* route.ts:126-131
MarkedAsRemoved(groupId) ==
    [kind |-> "return", success |-> TRUE,
     message |-> <<"Consumer group \"", groupId, "\" marked as removed">>,
     details |-> "The group will be cleaned up during the next Kafka server rebalance.",
     error |-> NoError]

\* route.ts:134-136
FailedToDelete(groupId) ==
    [kind |-> "throw", success |-> FALSE, message |-> <<>>, details |-> "",
     error |-> [name |-> "Error",
                message |-> <<"Failed to delete group ", groupId,
                              " after multiple attempts">>]]

Thrown(err) ==
    [kind |-> "throw", success |-> FALSE, message |-> <<>>, details |-> "", error |-> err]

NoResult ==
    [kind |-> "none", success |-> FALSE, message |-> <<>>, details |-> "", error |-> NoError]

\* error.message || 'Unknown error'
OrUnknown(message) == IF message = <<>> THEN <<"Unknown error">> ELSE message

NoHttpResponse ==
    [status |-> 0, hasSuccess |-> FALSE, success |-> FALSE, error |-> "",
     message |-> <<>>, details |-> <<>>]

BadRequest(error) == [NoHttpResponse EXCEPT !.status = 400, !.error = error]

\* route.ts:245-253 and 302-310: the answer to what forceRemoveGroup returned or threw
ForceResponse(res) ==
    IF res.kind = "return"
    THEN [status |-> 200, hasSuccess |-> TRUE, success |-> res.success, error |-> "",
          message |-> res.message,
          details |-> IF res.details = "" THEN <<>> ELSE <<res.details>>]
    ELSE [status |-> 500, hasSuccess |-> FALSE, success |-> FALSE,
          error |-> "Failed to force remove consumer group",
          message |-> <<>>, details |-> OrUnknown(res.error.message)]

\* route.ts:340-347: the outer catch of DELETE
OuterCatch(err) ==
    [status |-> 500, hasSuccess |-> FALSE, success |-> FALSE,
     error |-> "Failed to delete consumer group",
     message |-> <<>>, details |-> OrUnknown(err.message)]

\* admin.describeGroups([groupId]): it throws, or answers without the group,
\* or with the group and its members
DescribeAnswers ==
    { [threw |-> TRUE, found |-> FALSE, members |-> 0],
      [threw |-> FALSE, found |-> FALSE, members |-> 0] }
    \cup { [threw |-> FALSE, found |-> TRUE, members |-> n] : n \in 0 .. MaxMembers }

NoGroupInfo == [threw |-> FALSE, found |-> FALSE, members |-> 0]

\* a test that takes an empty members array for members
NeedsDeactivationIfFound(info) == ~info.threw /\ info.found

\* route.ts:46-49: group && group.members && group.members.length > 0
NeedsDeactivation(info) == ~info.threw /\ info.found /\ info.members > 0

Topics == { TopicName, OtherTopic }

\* admin.fetchOffsets({ groupId }): per topic, the number of partitions with offsets
GroupOffsetsAnswers ==
    UNION { { o \in [1 .. n -> [topic : Topics, partitions : 0 .. 1]] :
                \A i, j \in 1 .. n : i # j => o[i].topic # o[j].topic } :
            n \in 0 .. Cardinality(Topics) }

\* route.ts:89-90: the next entry at or after i that has partitions
NextToReset(offs, i) ==
    IF \E j \in i .. Len(offs) : offs[j].partitions > 0
    THEN CHOOSE j \in i .. Len(offs) :
            /\ offs[j].partitions > 0
            /\ \A k \in i .. (j - 1) : offs[k].partitions = 0
    ELSE Len(offs) + 1

\* a loop that goes on for one attempt more
LoopGoesOnInclusive(a) == a <= MaxDeleteAttempts

\* route.ts:109: attempt < 3
LoopGoesOn(a) == a < MaxDeleteAttempts

RemoveStart ==
    /\ request = [brokers |-> FALSE, groupId |-> "", force |-> FALSE, specialRemove |-> FALSE]
    /\ dpc = "start"
    /\ plainAdmin = "none"
    /\ deleteError = NoError
    /\ httpResponse = NoHttpResponse
    /\ fpc = "idle"
    /\ forcedAdmin = "none"
    /\ groupInfo = NoGroupInfo
    /\ needsDeactivation = FALSE
    /\ consumer = "none"
    /\ groupOffsets = <<>>
    /\ ri = 1
    /\ attempt = 0
    /\ result = NoResult
    /\ calls = <<>>

-----------------------------------------------------------------------------
(* forceRemoveGroup (consumer-groups/route.ts:5-144)                       *)

\* route.ts:38
ForceConnect ==
    /\ fpc = "connect"
    /\ \E ok \in BOOLEAN :
        /\ calls' = Append(calls, Call("admin.connect", "", ok))
        /\ IF ok
           THEN /\ forcedAdmin' = "connected"
                /\ fpc' = "describe"
                /\ UNCHANGED result
           ELSE /\ result' = Thrown(ClusterError("connect"))
                /\ fpc' = "finally"
                /\ UNCHANGED forcedAdmin
    /\ UNCHANGED <<groupInfo, needsDeactivation, consumer, groupOffsets, ri, attempt>>
    /\ UNCHANGED <<deleteVars, metricsVars, topicsVars, pollVars, browseVars>>

\* route.ts:40-55: the describe stage
Describe ==
    /\ fpc = "describe"
    /\ \E info \in DescribeAnswers :
        /\ calls' = Append(calls, Call("admin.describeGroups", request.groupId, ~info.threw))
        /\ groupInfo' = info
        /\ needsDeactivation' = NeedsDeactivation(info)
        /\ fpc' = IF NeedsDeactivation(info) THEN "consumer.connect" ELSE "fetchOffsets"
    /\ UNCHANGED <<forcedAdmin, consumer, groupOffsets, ri, attempt, result>>
    /\ UNCHANGED <<deleteVars, metricsVars, topicsVars, pollVars, browseVars>>

\* route.ts:78-80: the catch of the rebalance nudge goes on to the offset reset
CatchRebalanceError == fpc' = "fetchOffsets"

\* route.ts:59-60
ConsumerConnect ==
    /\ fpc = "consumer.connect"
    /\ \E ok \in BOOLEAN :
        /\ calls' = Append(calls, Call("consumer.connect", request.groupId, ok))
        /\ IF ok
           THEN /\ consumer' = "connected"
                /\ fpc' = "consumer.subscribe"
           ELSE /\ consumer' = "created"
                /\ CatchRebalanceError
    /\ UNCHANGED <<forcedAdmin, groupInfo, needsDeactivation, groupOffsets, ri, attempt,
                   result>>
    /\ UNCHANGED <<deleteVars, metricsVars, topicsVars, pollVars, browseVars>>

\* route.ts:63-66
ConsumerSubscribe ==
    /\ fpc = "consumer.subscribe"
    /\ \E ok \in BOOLEAN :
        /\ calls' = Append(calls, Call("consumer.subscribe", "__consumer_offsets", ok))
        /\ IF ok THEN fpc' = "consumer.run" ELSE CatchRebalanceError
    /\ UNCHANGED <<forcedAdmin, groupInfo, needsDeactivation, consumer, groupOffsets, ri,
                   attempt, result>>
    /\ UNCHANGED <<deleteVars, metricsVars, topicsVars, pollVars, browseVars>>

\* route.ts:69-72: run is started, not awaited; then the 1 s wait
ConsumerRun ==
    /\ fpc = "consumer.run"
    /\ calls' = Append(calls, Call("consumer.run", "", TRUE))
    /\ consumer' = "running"
    /\ fpc' = "consumer.stop"
    /\ UNCHANGED <<forcedAdmin, groupInfo, needsDeactivation, groupOffsets, ri, attempt,
                   result>>
    /\ UNCHANGED <<deleteVars, metricsVars, topicsVars, pollVars, browseVars>>

\* route.ts:73
ConsumerStop ==
    /\ fpc = "consumer.stop"
    /\ \E ok \in BOOLEAN :
        /\ calls' = Append(calls, Call("consumer.stop", "", ok))
        /\ IF ok
           THEN /\ consumer' = "stopped"
                /\ fpc' = "consumer.disconnect"
           ELSE /\ UNCHANGED consumer
                /\ CatchRebalanceError
    /\ UNCHANGED <<forcedAdmin, groupInfo, needsDeactivation, groupOffsets, ri, attempt,
                   result>>
    /\ UNCHANGED <<deleteVars, metricsVars, topicsVars, pollVars, browseVars>>

\* route.ts:74
ConsumerDisconnect ==
    /\ fpc = "consumer.disconnect"
    /\ \E ok \in BOOLEAN :
        /\ calls' = Append(calls, Call("consumer.disconnect", "", ok))
        /\ IF ok
           THEN /\ consumer' = "disconnected"
                /\ fpc' = "settle"
           ELSE /\ UNCHANGED consumer
                /\ CatchRebalanceError
    /\ UNCHANGED <<forcedAdmin, groupInfo, needsDeactivation, groupOffsets, ri, attempt,
                   result>>
    /\ UNCHANGED <<deleteVars, metricsVars, topicsVars, pollVars, browseVars>>

\* route.ts:77: the 2 s settle wait
Settle ==
    /\ fpc = "settle"
    /\ fpc' = "fetchOffsets"
    /\ UNCHANGED <<forcedAdmin, groupInfo, needsDeactivation, consumer, groupOffsets, ri,
                   attempt, result, calls>>
    /\ UNCHANGED <<deleteVars, metricsVars, topicsVars, pollVars, browseVars>>

\* route.ts:84-89 and 104-106
FetchGroupOffsets ==
    /\ fpc = "fetchOffsets"
    /\ \/ \E offs \in GroupOffsetsAnswers :
            /\ calls' = Append(calls, Call("admin.fetchOffsets", request.groupId, TRUE))
            /\ groupOffsets' = offs
            /\ ri' = NextToReset(offs, 1)
            /\ fpc' = IF NextToReset(offs, 1) <= Len(offs) THEN "resetOffsets" ELSE "deleteGroups"
       \/ /\ calls' = Append(calls, Call("admin.fetchOffsets", request.groupId, FALSE))
          /\ fpc' = "deleteGroups"
          /\ UNCHANGED <<groupOffsets, ri>>
    /\ UNCHANGED <<forcedAdmin, groupInfo, needsDeactivation, consumer, attempt, result>>
    /\ UNCHANGED <<deleteVars, metricsVars, topicsVars, pollVars, browseVars>>

\* a reset loop that a failed reset leaves for the deletion
ResetOffsetsStopsAtFailure ==
    /\ fpc = "resetOffsets"
    /\ \E ok \in BOOLEAN :
        /\ calls' = Append(calls, Call("admin.resetOffsets", groupOffsets[ri].topic, ok))
        /\ ri' = IF ok THEN NextToReset(groupOffsets, ri + 1) ELSE Len(groupOffsets) + 1
        /\ fpc' = IF ok /\ NextToReset(groupOffsets, ri + 1) <= Len(groupOffsets)
                  THEN "resetOffsets" ELSE "deleteGroups"
    /\ UNCHANGED <<forcedAdmin, groupInfo, needsDeactivation, consumer, groupOffsets,
                   attempt, result>>
    /\ UNCHANGED <<deleteVars, metricsVars, topicsVars, pollVars, browseVars>>

\* route.ts:89-102: the reset of one topic; a failed reset goes on to the next topic
ResetOffsets ==
    /\ fpc = "resetOffsets"
    /\ \E ok \in BOOLEAN :
        calls' = Append(calls, Call("admin.resetOffsets", groupOffsets[ri].topic, ok))
    /\ ri' = NextToReset(groupOffsets, ri + 1)
    /\ fpc' = IF NextToReset(groupOffsets, ri + 1) <= Len(groupOffsets)
              THEN "resetOffsets" ELSE "deleteGroups"
    /\ UNCHANGED <<forcedAdmin, groupInfo, needsDeactivation, consumer, groupOffsets,
                   attempt, result>>
    /\ UNCHANGED <<deleteVars, metricsVars, topicsVars, pollVars, browseVars>>

\* a fallback that never accepts
FallbackAlwaysThrows(groupId) == FailedToDelete(groupId)

\* a fallback that accepts every group
FallbackAlwaysAccepts(groupId) == MarkedAsRemoved(groupId)

\* route.ts:124-136: after the loop
Fallback(groupId) ==
    IF StartsWithKafkaUi(groupId) THEN MarkedAsRemoved(groupId) ELSE FailedToDelete(groupId)

\* route.ts:109-122: one deletion attempt
DeleteGroups ==
    /\ fpc = "deleteGroups"
    /\ LoopGoesOn(attempt)
    /\ \E ok \in BOOLEAN :
        /\ calls' = Append(calls, Call("admin.deleteGroups", request.groupId, ok))
        /\ IF ok
           THEN /\ result' = ForceRemoved(request.groupId)
                /\ fpc' = "finally"
                /\ UNCHANGED attempt
           ELSE IF attempt < LastWaitedAttempt
           THEN /\ fpc' = "deleteWait"
                /\ UNCHANGED <<attempt, result>>
           ELSE /\ attempt' = attempt + 1
                /\ IF LoopGoesOn(attempt + 1)
                   THEN /\ fpc' = "deleteGroups"
                        /\ UNCHANGED result
                   ELSE /\ result' = Fallback(request.groupId)
                        /\ fpc' = "finally"
    /\ UNCHANGED <<forcedAdmin, groupInfo, needsDeactivation, consumer, groupOffsets, ri>>
    /\ UNCHANGED <<deleteVars, metricsVars, topicsVars, pollVars, browseVars>>

\* route.ts:117-120: the 1 s wait between attempts, then attempt++
DeleteWait ==
    /\ fpc = "deleteWait"
    /\ attempt' = attempt + 1
    /\ IF LoopGoesOn(attempt + 1)
       THEN /\ fpc' = "deleteGroups"
            /\ UNCHANGED result
       ELSE /\ result' = Fallback(request.groupId)
            /\ fpc' = "finally"
    /\ UNCHANGED <<forcedAdmin, groupInfo, needsDeactivation, consumer, groupOffsets, ri,
                   calls>>
    /\ UNCHANGED <<deleteVars, metricsVars, topicsVars, pollVars, browseVars>>

\* a finally block whose disconnect error is thrown in place of the outcome
FinallyMasks ==
    /\ fpc = "finally"
    /\ \E ok \in BOOLEAN :
        /\ calls' = Append(calls, Call("admin.disconnect", "", ok))
        /\ forcedAdmin' = IF ok THEN "disconnected" ELSE forcedAdmin
        /\ result' = IF ok THEN result ELSE Thrown(ClusterError("disconnect"))
        /\ httpResponse' =
                ForceResponse(IF ok THEN result ELSE Thrown(ClusterError("disconnect")))
    /\ fpc' = "returned"
    /\ dpc' = "done"
    /\ UNCHANGED <<groupInfo, needsDeactivation, consumer, groupOffsets, ri, attempt>>
    /\ UNCHANGED <<request, plainAdmin, deleteError, metricsVars, topicsVars, pollVars, browseVars>>

\* route.ts:137-143, then the caller's answer (route.ts:245-253, 302-310)
Finally ==
    /\ fpc = "finally"
    /\ \E ok \in BOOLEAN :
        /\ calls' = Append(calls, Call("admin.disconnect", "", ok))
        /\ forcedAdmin' = IF ok THEN "disconnected" ELSE forcedAdmin
    /\ fpc' = "returned"
    /\ httpResponse' = ForceResponse(result)
    /\ dpc' = "done"
    /\ UNCHANGED <<groupInfo, needsDeactivation, consumer, groupOffsets, ri, attempt, result>>
    /\ UNCHANGED <<request, plainAdmin, deleteError, metricsVars, topicsVars, pollVars, browseVars>>

NextForce ==
    \/ ForceConnect
    \/ Describe
    \/ ConsumerConnect
    \/ ConsumerSubscribe
    \/ ConsumerRun
    \/ ConsumerStop
    \/ ConsumerDisconnect
    \/ Settle
    \/ FetchGroupOffsets
    \/ ResetOffsets
    \/ DeleteGroups
    \/ DeleteWait
    \/ Finally

-----------------------------------------------------------------------------
(* DELETE (consumer-groups/route.ts:211-349)                               *)

\* a choice of path that also takes the force flag for the stubborn procedure
UsesForceRemoveOrForce(req) ==
    req.specialRemove \/ req.force \/ StartsWithKafkaUi(req.groupId)

\* route.ts:238: specialRemove === true || groupId.startsWith('kafka-ui-')
UsesForceRemove(req) == req.specialRemove \/ StartsWithKafkaUi(req.groupId)

\* route.ts:212-255: the body, its checks, and the choice of the path
Receive ==
    /\ dpc = "start"
    /\ \E req \in Requests :
        /\ request' = req
        /\ IF ~req.brokers
           THEN /\ httpResponse' = BadRequest("Broker information is required")
                /\ dpc' = "done"
                /\ UNCHANGED fpc
           ELSE IF req.groupId = ""
           THEN /\ httpResponse' = BadRequest("Consumer group ID is required")
                /\ dpc' = "done"
                /\ UNCHANGED fpc
           ELSE IF UsesForceRemove(req)
           THEN /\ dpc' = "forceRemoveGroup"
                /\ fpc' = "connect"
                /\ UNCHANGED httpResponse
           ELSE /\ dpc' = "connect"
                /\ UNCHANGED <<httpResponse, fpc>>
    /\ UNCHANGED <<plainAdmin, deleteError, calls>>
    /\ UNCHANGED <<forcedAdmin, groupInfo, needsDeactivation, consumer, groupOffsets, ri,
                   attempt, result>>
    /\ UNCHANGED <<metricsVars, topicsVars, pollVars, browseVars>>

\* route.ts:268-269: a failure here is caught by the outer catch
PlainConnect ==
    /\ dpc = "connect"
    /\ \E ok \in BOOLEAN :
        /\ calls' = Append(calls, Call("plain.connect", "", ok))
        /\ IF ok
           THEN /\ plainAdmin' = "connected"
                /\ dpc' = "listGroups"
                /\ UNCHANGED httpResponse
           ELSE /\ httpResponse' = OuterCatch(ClusterError("connect"))
                /\ dpc' = "done"
                /\ UNCHANGED plainAdmin
    /\ UNCHANGED <<request, deleteError, forceVars, metricsVars, topicsVars, pollVars, browseVars>>

\* admin.listGroups(), as far as the target group goes: absent, or listed with
\* or without a protocolType
ListedGroups == { "absent", "listed", "active" }

\* a plain path that refuses no group
RefusesActiveNever(listed, force) == FALSE

\* route.ts:279: targetGroup && targetGroup.protocolType && !force
RefusesActive(listed, force) == listed = "active" /\ ~force

\* route.ts:273-313
PlainListGroups ==
    /\ dpc = "listGroups"
    /\ \/ \E listed \in ListedGroups :
            /\ calls' = Append(calls, Call("plain.listGroups", listed, TRUE))
            /\ dpc' = IF RefusesActive(listed, request.force) THEN "refuse.disconnect"
                      ELSE IF request.force /\ StartsWithKafkaUi(request.groupId)
                           THEN "force.disconnect"
                           ELSE "deleteGroups"
            /\ UNCHANGED deleteError
       \/ /\ calls' = Append(calls, Call("plain.listGroups", "", FALSE))
          /\ deleteError' = ClusterError("listGroups")
          /\ dpc' = "catch.disconnect"
    /\ UNCHANGED <<request, plainAdmin, httpResponse, forceVars, metricsVars, topicsVars, pollVars, browseVars>>

\* route.ts:315
PlainDeleteGroups ==
    /\ dpc = "deleteGroups"
    /\ \/ /\ calls' = Append(calls, Call("plain.deleteGroups", request.groupId, TRUE))
          /\ dpc' = "disconnect"
          /\ UNCHANGED deleteError
       \/ \E err \in { DeleteGroupsError, ClusterError("deleteGroups") } :
            /\ calls' = Append(calls, Call("plain.deleteGroups", request.groupId, FALSE))
            /\ deleteError' = err
            /\ dpc' = "catch.disconnect"
    /\ UNCHANGED <<request, plainAdmin, httpResponse, forceVars, metricsVars, topicsVars, pollVars, browseVars>>

\* route.ts:280-288, 293-301 and 316-321: the disconnect of the try block,
\* and what follows it
PlainDisconnect ==
    /\ dpc \in {"refuse.disconnect", "force.disconnect", "disconnect"}
    /\ \/ /\ calls' = Append(calls, Call("plain.disconnect", "", TRUE))
          /\ plainAdmin' = "disconnected"
          /\ IF dpc = "refuse.disconnect"
             THEN /\ httpResponse' =
                        [BadRequest("Cannot delete active consumer group") EXCEPT
                            !.details = <<"The consumer group is currently active.">>]
                  /\ dpc' = "done"
                  /\ UNCHANGED fpc
             ELSE IF dpc = "force.disconnect"
             THEN /\ dpc' = "forceRemoveGroup"
                  /\ fpc' = "connect"
                  /\ UNCHANGED httpResponse
             ELSE /\ httpResponse' =
                        [status |-> 200, hasSuccess |-> TRUE, success |-> TRUE, error |-> "",
                         message |-> <<"Consumer group \"", request.groupId,
                                       "\" deleted successfully">>,
                         details |-> <<>>]
                  /\ dpc' = "done"
                  /\ UNCHANGED fpc
          /\ UNCHANGED deleteError
       \/ /\ calls' = Append(calls, Call("plain.disconnect", "", FALSE))
          /\ deleteError' = ClusterError("disconnect")
          /\ dpc' = "catch.disconnect"
          /\ UNCHANGED <<plainAdmin, httpResponse, fpc>>
    /\ UNCHANGED <<request, metricsVars, topicsVars, pollVars, browseVars>>
    /\ UNCHANGED <<forcedAdmin, groupInfo, needsDeactivation, consumer, groupOffsets, ri,
                   attempt, result>>

\* route.ts:322-339: the inner catch
PlainCatch ==
    /\ dpc = "catch.disconnect"
    /\ \/ /\ calls' = Append(calls, Call("plain.disconnect", "", TRUE))
          /\ plainAdmin' = "disconnected"
          /\ httpResponse' =
                IF deleteError.name = "KafkaJSDeleteGroupsError"
                THEN [BadRequest("Failed to delete consumer group") EXCEPT
                        !.details = <<"The consumer group may still have active members or be in use.">>]
                ELSE OuterCatch(deleteError)
       \/ /\ calls' = Append(calls, Call("plain.disconnect", "", FALSE))
          /\ httpResponse' = OuterCatch(ClusterError("disconnect"))
          /\ UNCHANGED plainAdmin
    /\ dpc' = "done"
    /\ UNCHANGED <<request, deleteError, forceVars, metricsVars, topicsVars, pollVars, browseVars>>

NextRemove ==
    \/ Receive
    \/ PlainConnect
    \/ PlainListGroups
    \/ PlainDeleteGroups
    \/ PlainDisconnect
    \/ PlainCatch
    \/ NextForce

-----------------------------------------------------------------------------
(* POST /api/kafka/messages (messages/route.ts:24-307): values             *)

\* messages a partition of the browsed topic may hold
MaxHigh == 2
\* the largest limit a request asks for
MaxLimit == 2

BrowsePartitions == { 0, 1 }

\* an optional number that is absent (partition: undefined)
Undefined == -1
\* an optional string that is absent (offset, search: undefined)
UndefinedString == "undefined"

\* BigInt(s) of a decimal string, and String(n) of a number: exact at every size
BigInt(s) == ParseInt(s)
String(n) == ToString(n)

\* what the topic holds: the value and the timestamp of the message at an
\* offset of a partition; timestamps do not follow the offsets
Values == << <<"a", "b", "a", "b">>, <<"b", "b", "a", "a">> >>
Timestamps == << <<10, 30, 20, 40>>, <<20, 10, 30, 40>> >>

\* the message kafkajs hands to eachMessage, as route.ts:136-142 stores it
\* (the key plays no part and is left out)
LogMessage(p, o) ==
    [offset |-> String(o), partition |-> p, value |-> Values[p + 1][o + 1],
     timestamp |-> Timestamps[p + 1][o + 1]]

\* highestOffsets of a request body: absent, or an object partition -> offset
NoHighestOffsets == [defined |-> FALSE, entries |-> [q \in {} |-> ""]]
HighestOffsetsOf(S) ==
    { [defined |-> TRUE, entries |-> e] : e \in [S -> { String(o) : o \in 0 .. MaxHigh - 1 }] }
HighestOffsetsBodies ==
    { NoHighestOffsets } \cup UNION { HighestOffsetsOf(S) : S \in SUBSET BrowsePartitions }

Bodies ==
    [limit : 1 .. MaxLimit,
     readingMode : { "latest", "earliest", "specific" },
     search : { UndefinedString, "a" },
     partition : { Undefined, 1 },
     offset : { UndefinedString, "1" },
     highestOffsets : HighestOffsetsBodies]

NoBody ==
    [limit |-> 1, readingMode |-> "latest", search |-> UndefinedString,
     partition |-> Undefined, offset |-> UndefinedString,
     highestOffsets |-> NoHighestOffsets]

\* Object.keys(highestOffsets).length > 0
HasEntries(ho) == ho.defined /\ DOMAIN ho.entries # {}

\* route.ts:62
UseLatestMode(b) == b.readingMode = "latest" /\ ~b.highestOffsets.defined

RECURSIVE SortedKeys(_)
\* Object.entries of an object with integer keys: ascending keys
SortedKeys(S) ==
    IF S = {} THEN <<>>
    ELSE LET k == CHOOSE x \in S : \A y \in S : x <= y
         IN  <<k>> \o SortedKeys(S \ {k})

\* route.ts:102-109: value.toLowerCase().includes(search.toLowerCase()), on the
\* one-letter values of the model
SearchSkips(b, message) == b.search # UndefinedString /\ message.value # b.search

\* route.ts:111-118
PartitionSkips(b, message) ==
    /\ b.readingMode # "specific"
    /\ b.partition # Undefined
    /\ message.partition # b.partition

\* route.ts:120-134
SeenSkips(b, message) ==
    /\ b.highestOffsets.defined
    /\ message.partition \in DOMAIN b.highestOffsets.entries
    /\ BigInt(message.offset) <= BigInt(b.highestOffsets.entries[message.partition])

\* route.ts:99-134: eachMessage returns without storing the message
Skips(b, message) ==
    SearchSkips(b, message) \/ PartitionSkips(b, message) \/ SeenSkips(b, message)

\* route.ts:184: BigInt(String(offsetStr)) + BigInt(1); offsetStr is a string,
\* which String() leaves as it is
NextOffset(offsetStr) == BigInt(offsetStr) + BigInt("1")

\* Math.ceil(a / b) for b > 0
CeilDiv(a, b) == (a + b - 1) \div b

\* route.ts:220-224
MessagesPerPartition(limit, partitionCount) == MathMax(1, CeilDiv(limit, partitionCount))

\* route.ts:228-235
StartOffset(highStr, perPartition) ==
    LET latestOffset == BigInt(highStr)
    IN  IF latestOffset > perPartition THEN latestOffset - perPartition ELSE BigInt("0")

RECURSIVE InsertByTimestamp(_, _)
\* m put into a list sorted by descending timestamp, after its equals
InsertByTimestamp(sorted, m) ==
    IF sorted = <<>> THEN <<m>>
    ELSE IF Head(sorted).timestamp >= m.timestamp
         THEN <<Head(sorted)>> \o InsertByTimestamp(Tail(sorted), m)
         ELSE <<m>> \o sorted

RECURSIVE SortByTimestamp(_)
\* route.ts:285: messages.sort((a, b) => Number(b.timestamp) - Number(a.timestamp)),
\* a stable sort
SortByTimestamp(msgs) ==
    IF msgs = <<>> THEN <<>>
    ELSE InsertByTimestamp(SortByTimestamp(SubSeq(msgs, 1, Len(msgs) - 1)), msgs[Len(msgs)])

\* route.ts:288-290
SliceToLimit(msgs, limit) == IF Len(msgs) > limit THEN SubSeq(msgs, 1, limit) ELSE msgs

\* the promise of runConsumer: it settles once
Pending == [state |-> "pending", reason |-> ""]
Resolve(pr) == IF pr.state = "pending" THEN [state |-> "resolved", reason |-> ""] ELSE pr
Reject(pr, reason) ==
    IF pr.state = "pending" THEN [state |-> "rejected", reason |-> reason] ELSE pr

\* await consumer.stop(); await consumer.disconnect(): what may become of it
StopOutcomes == { "ok", "consumer.stop", "consumer.disconnect" }
AfterStop(status, outcome) ==
    IF outcome = "ok" \/ status = "disconnected" THEN "disconnected"
    ELSE IF outcome = "consumer.disconnect" THEN "stopped"
    ELSE status

NoPollResponse == [status |-> 0, error |-> "", details |-> "", messages |-> <<>>]

\* route.ts:297-306
PollCatch(reason) ==
    [status |-> 500, error |-> "Failed to fetch Kafka messages", details |-> reason,
     messages |-> <<>>]

PollStart ==
    /\ body = NoBody
    /\ logEnd = [q \in BrowsePartitions |-> 0]
    /\ mpc = "start"
    /\ pollConsumer = "none"
    /\ pollAdmin = "none"
    /\ position = [q \in BrowsePartitions |-> 0]
    /\ si = 1
    /\ seeks = <<>>
    /\ messages = <<>>
    /\ messageCount = 0
    /\ promise = Pending
    /\ thrown = ""
    /\ timer = "unset"
    /\ pollResponse = NoPollResponse

-----------------------------------------------------------------------------
(* POST /api/kafka/messages: the handler                                   *)

\* route.ts:26-56: the body and its checks; the topic holds what it holds
PostReceive ==
    /\ mpc = "start"
    /\ \/ \E b \in Bodies, h \in [BrowsePartitions -> 0 .. MaxHigh] :
            /\ body' = b
            /\ logEnd' = h
            /\ mpc' = "connect"
            /\ UNCHANGED pollResponse
       \/ \E error \in { "Broker information is required", "Topic name is required" } :
            /\ pollResponse' = [NoPollResponse EXCEPT !.status = 400, !.error = error]
            /\ mpc' = "ended"
            /\ UNCHANGED <<body, logEnd>>
    /\ UNCHANGED <<pollConsumer, pollAdmin, position, si, seeks, messages, messageCount,
                   promise, thrown, timer>>
    /\ UNCHANGED <<metricsVars, topicsVars, removeVars, browseVars>>

\* route.ts:71; a failure is caught at 297
PollConnect ==
    /\ mpc = "connect"
    /\ \E ok \in BOOLEAN :
        IF ok
        THEN /\ pollConsumer' = "connected"
             /\ mpc' = "subscribe"
             /\ UNCHANGED pollResponse
        ELSE /\ pollResponse' = PollCatch("consumer.connect")
             /\ mpc' = "ended"
             /\ UNCHANGED pollConsumer
    /\ UNCHANGED <<body, logEnd, pollAdmin, position, si, seeks, messages, messageCount,
                   promise, thrown, timer>>
    /\ UNCHANGED <<metricsVars, topicsVars, removeVars, browseVars>>

\* route.ts:72-75; a failure is caught at 297
PollSubscribe ==
    /\ mpc = "subscribe"
    /\ \E ok \in BOOLEAN :
        IF ok
        THEN /\ mpc' = "run"
             /\ UNCHANGED pollResponse
        ELSE /\ pollResponse' = PollCatch("consumer.subscribe")
             /\ mpc' = "ended"
    /\ UNCHANGED <<body, logEnd, pollConsumer, pollAdmin, position, si, seeks, messages,
                   messageCount, promise, thrown, timer>>
    /\ UNCHANGED <<metricsVars, topicsVars, removeVars, browseVars>>

\* route.ts:155-205: which seeks follow consumer.run
AfterRun(b) ==
    IF b.readingMode = "specific" /\ b.partition # Undefined /\ b.offset # UndefinedString
    THEN "seek.specific"
    ELSE IF HasEntries(b.highestOffsets) THEN "seek.next"
    ELSE IF UseLatestMode(b) THEN "latest.connect"
    ELSE "setTimeout"

\* route.ts:82-152: consumer.run is called and not awaited; the consumer reads
\* on from where the group stands (its committed offsets, or an end of the log)
RunConsumer ==
    /\ mpc = "run"
    /\ pollConsumer' = "running"
    /\ \E pos \in [BrowsePartitions -> 0 .. MaxHigh] :
        /\ \A q \in BrowsePartitions : pos[q] <= logEnd[q]
        /\ position' = pos
    /\ si' = 1
    /\ mpc' = AfterRun(body)
    /\ UNCHANGED <<body, logEnd, pollAdmin, seeks, messages, messageCount, promise, thrown,
                   timer, pollResponse>>
    /\ UNCHANGED <<metricsVars, topicsVars, removeVars, browseVars>>

\* consumer.seek({ topic, partition, offset }): the call, and where the consumer
\* reads next when it succeeds
Seek(q, offsetStr, ok) ==
    /\ seeks' = Append(seeks, [partition |-> q, offset |-> offsetStr, ok |-> ok])
    /\ position' = IF ok THEN [position EXCEPT ![q] = BigInt(offsetStr)] ELSE position

\* route.ts:155-171: the 500 ms wait and the seek of a request with a partition
\* and an offset; its failure goes to the catch of 269
SeekSpecific ==
    /\ mpc = "seek.specific"
    /\ \E ok \in BOOLEAN :
        /\ Seek(body.partition, body.offset, ok)
        /\ IF ok
           THEN /\ mpc' = "setTimeout"
                /\ UNCHANGED thrown
           ELSE /\ mpc' = "catch"
                /\ thrown' = "consumer.seek"
    /\ UNCHANGED <<body, logEnd, pollConsumer, pollAdmin, si, messages, messageCount,
                   promise, timer, pollResponse>>
    /\ UNCHANGED <<metricsVars, topicsVars, removeVars, browseVars>>

\* route.ts:173-203: one turn of the loop over highestOffsets (the 500 ms wait
\* comes before the first); a failed seek is logged and the loop goes on
SeekNext ==
    /\ mpc = "seek.next"
    /\ LET keys == SortedKeys(DOMAIN body.highestOffsets.entries)
           partitionNum == keys[si]
           nextOffset == NextOffset(body.highestOffsets.entries[partitionNum])
       IN  /\ \E ok \in BOOLEAN : Seek(partitionNum, String(nextOffset), ok)
           /\ si' = si + 1
           /\ mpc' = IF si = Len(keys) THEN "setTimeout" ELSE "seek.next"
    /\ UNCHANGED <<body, logEnd, pollConsumer, pollAdmin, messages, messageCount, promise,
                   thrown, timer, pollResponse>>
    /\ UNCHANGED <<metricsVars, topicsVars, removeVars, browseVars>>

\* route.ts:207-208
LatestConnect ==
    /\ mpc = "latest.connect"
    /\ \E ok \in BOOLEAN :
        IF ok
        THEN /\ pollAdmin' = "connected"
             /\ mpc' = "latest.fetchTopicOffsets"
             /\ UNCHANGED thrown
        ELSE /\ thrown' = "admin.connect"
             /\ mpc' = "catch"
             /\ UNCHANGED pollAdmin
    /\ UNCHANGED <<body, logEnd, pollConsumer, position, si, seeks, messages, messageCount,
                   promise, timer, pollResponse>>
    /\ UNCHANGED <<metricsVars, topicsVars, removeVars, browseVars>>

\* route.ts:212-224: the 500 ms wait and admin.fetchTopicOffsets(topic), which
\* answers the high watermark of every partition
LatestFetchTopicOffsets ==
    /\ mpc = "latest.fetchTopicOffsets"
    /\ \E ok \in BOOLEAN :
        IF ok
        THEN /\ si' = 1
             /\ mpc' = "latest.seek"
             /\ UNCHANGED thrown
        ELSE /\ thrown' = "admin.fetchTopicOffsets"
             /\ mpc' = "latest.disconnect"
             /\ UNCHANGED si
    /\ UNCHANGED <<body, logEnd, pollConsumer, pollAdmin, position, seeks, messages,
                   messageCount, promise, timer, pollResponse>>
    /\ UNCHANGED <<metricsVars, topicsVars, removeVars, browseVars>>

\* route.ts:226-252: one turn of the loop over topicOffsets
LatestSeek ==
    /\ mpc = "latest.seek"
    /\ LET keys == SortedKeys(BrowsePartitions)
           partitionNum == keys[si]
           messagesPerPartition == MessagesPerPartition(body.limit, Len(keys))
           startOffset == StartOffset(String(logEnd[partitionNum]), messagesPerPartition)
       IN  /\ \E ok \in BOOLEAN : Seek(partitionNum, String(startOffset), ok)
           /\ si' = si + 1
           /\ mpc' = IF si = Len(keys) THEN "latest.disconnect" ELSE "latest.seek"
    /\ UNCHANGED <<body, logEnd, pollConsumer, pollAdmin, messages, messageCount, promise,
                   thrown, timer, pollResponse>>
    /\ UNCHANGED <<metricsVars, topicsVars, removeVars, browseVars>>

\* route.ts:253-255: the finally block; an error of the disconnect takes the
\* place of the one on its way
LatestDisconnect ==
    /\ mpc = "latest.disconnect"
    /\ \E ok \in BOOLEAN :
        IF ok
        THEN /\ pollAdmin' = "disconnected"
             /\ mpc' = IF thrown = "" THEN "setTimeout" ELSE "catch"
             /\ UNCHANGED thrown
        ELSE /\ thrown' = "admin.disconnect"
             /\ mpc' = "catch"
             /\ UNCHANGED pollAdmin
    /\ UNCHANGED <<body, logEnd, pollConsumer, position, si, seeks, messages, messageCount,
                   promise, timer, pollResponse>>
    /\ UNCHANGED <<metricsVars, topicsVars, removeVars, browseVars>>

\* route.ts:259: the timeout is set, and the body of the executor is through
SetTimeout ==
    /\ mpc = "setTimeout"
    /\ timer' = "armed"
    /\ mpc' = "ended"
    /\ UNCHANGED <<body, logEnd, pollConsumer, pollAdmin, position, si, seeks, messages,
                   messageCount, promise, thrown, pollResponse>>
    /\ UNCHANGED <<metricsVars, topicsVars, removeVars, browseVars>>

\* route.ts:269-278: stop and disconnect, their errors logged, then reject
CatchRunError ==
    /\ mpc = "catch"
    /\ \E outcome \in StopOutcomes : pollConsumer' = AfterStop(pollConsumer, outcome)
    /\ promise' = Reject(promise, thrown)
    /\ mpc' = "ended"
    /\ UNCHANGED <<body, logEnd, pollAdmin, position, si, seeks, messages, messageCount,
                   thrown, timer, pollResponse>>
    /\ UNCHANGED <<metricsVars, topicsVars, removeVars, browseVars>>

\* route.ts:93-95 and 147-149: stop, disconnect, resolve; an error of the first
\* two leaves eachMessage before resolve
StopAndResolve ==
    \E outcome \in StopOutcomes :
        /\ pollConsumer' = AfterStop(pollConsumer, outcome)
        /\ promise' = IF outcome = "ok" THEN Resolve(promise) ELSE promise

\* route.ts:87-151: eachMessage on the next message of a partition
EachMessage ==
    /\ pollConsumer = "running"
    /\ \E q \in BrowsePartitions :
        /\ position[q] < logEnd[q]
        /\ position' = [position EXCEPT ![q] = @ + 1]
        /\ LET message == LogMessage(q, position[q])
           IN  IF messageCount >= body.limit
               THEN /\ StopAndResolve
                    /\ UNCHANGED <<messages, messageCount>>
               ELSE IF Skips(body, message)
               THEN UNCHANGED <<messages, messageCount, pollConsumer, promise>>
               ELSE /\ messages' = Append(messages, message)
                    /\ messageCount' = messageCount + 1
                    /\ IF messageCount + 1 >= body.limit
                       THEN StopAndResolve
                       ELSE UNCHANGED <<pollConsumer, promise>>
    /\ UNCHANGED <<body, logEnd, mpc, pollAdmin, si, seeks, thrown, timer, pollResponse>>
    /\ UNCHANGED <<metricsVars, topicsVars, removeVars, browseVars>>

\* route.ts:259-268: the timeout fires 5 s after it was set
TimerFires ==
    /\ timer = "armed"
    /\ timer' = "fired"
    /\ \E outcome \in StopOutcomes :
        /\ pollConsumer' = AfterStop(pollConsumer, outcome)
        /\ promise' = IF outcome = "ok" THEN Resolve(promise) ELSE Reject(promise, outcome)
    /\ UNCHANGED <<body, logEnd, mpc, pollAdmin, position, si, seeks, messages, messageCount,
                   thrown, pollResponse>>
    /\ UNCHANGED <<metricsVars, topicsVars, removeVars, browseVars>>

\* route.ts:282-306: what follows await runConsumer()
Respond ==
    /\ pollResponse = NoPollResponse
    /\ promise.state # "pending"
    /\ pollResponse' =
            IF promise.state = "resolved"
            THEN [status |-> 200, error |-> "", details |-> "",
                  messages |-> SliceToLimit(SortByTimestamp(messages), body.limit)]
            ELSE PollCatch(promise.reason)
    /\ UNCHANGED <<body, logEnd, mpc, pollConsumer, pollAdmin, position, si, seeks, messages,
                   messageCount, promise, thrown, timer>>
    /\ UNCHANGED <<metricsVars, topicsVars, removeVars, browseVars>>

NextPoll ==
    \/ PostReceive
    \/ PollConnect
    \/ PollSubscribe
    \/ RunConsumer
    \/ SeekSpecific
    \/ SeekNext
    \/ LatestConnect
    \/ LatestFetchTopicOffsets
    \/ LatestSeek
    \/ LatestDisconnect
    \/ SetTimeout
    \/ CatchRunError
    \/ EachMessage
    \/ TimerFires
    \/ Respond

-----------------------------------------------------------------------------
(* The message browser (components/topics/TopicMessages.tsx): values       *)

\* calls of handleSearch in one run of the browser
MaxSearches == 1
\* messages produced from the page in one run of the browser
MaxProduced == 1

\* limit: 100 of the first searchParams, at the scale of the limits asked for
DefaultLimit == MaxLimit

\* MessageSearchParams, as the search form fills it
SearchParams ==
    [topic : Topics,
     limit : 1 .. MaxLimit,
     readingMode : { "latest", "earliest", "specific" },
     autoRefresh : BOOLEAN,
     search : { UndefinedString, "a" },
     partition : { Undefined, 1 },
     offset : { UndefinedString, "1" }]

\* TopicMessages.tsx:21-26, with a topic selected
FirstSearchParams ==
    [topic |-> TopicName, limit |-> DefaultLimit, readingMode |-> "latest",
     autoRefresh |-> TRUE, search |-> UndefinedString, partition |-> Undefined,
     offset |-> UndefinedString]

\* the form's values differ from the last searchParams in one field
OneFieldChanged(sp, params) ==
    Cardinality({ field \in DOMAIN sp : sp[field] # params[field] }) = 1

\* the dependencies of the effect of TopicMessages.tsx:73-77
ResetDeps(sp) == <<sp.topic, sp.readingMode, sp.partition, sp.offset, sp.search>>

\* {} of a Record<number, string>
NoOffsets == [q \in {} |-> ""]

\* TopicMessages.tsx:97-107
EffectiveReadingMode(sp, ho) ==
    IF sp.readingMode = "latest" /\ sp.autoRefresh /\ DOMAIN ho # {}
    THEN "specific"
    ELSE sp.readingMode

\* TopicMessages.tsx:113-124: the body of the POST
RequestBody(sp, ho) ==
    [topic |-> sp.topic,
     limit |-> sp.limit,
     readingMode |-> EffectiveReadingMode(sp, ho),
     search |-> sp.search,
     partition |-> sp.partition,
     offset |-> sp.offset,
     highestOffsets |-> IF EffectiveReadingMode(sp, ho) = "specific"
                        THEN [defined |-> TRUE, entries |-> ho]
                        ELSE NoHighestOffsets]

\* a run of the query function up to its fetch: the searchParams it closed
\* over and the body it sent
QueryRun(sp, ho) == [searchParams |-> sp, body |-> RequestBody(sp, ho)]

\* the messages of the topic
LogMessages == { LogMessage(p, o) : p \in BrowsePartitions, o \in 0 .. MaxHigh - 1 }

SeqsUpTo(S, n) == UNION { [1 .. k -> S] : k \in 0 .. n }

\* what POST /api/kafka/messages may answer to a body with status 200: up to
\* limit messages that eachMessage stored, a message twice when it was
\* delivered before a seek and again after it, sorted and cut as in
\* route.ts:285-290
Responses(b) ==
    { SliceToLimit(SortByTimestamp(s), b.limit) :
        s \in SeqsUpTo({ m \in LogMessages : ~Skips(b, m) }, b.limit) }

\* every answer of the handler with status 200 is one of Responses
AnswersAreResponses ==
    pollResponse.status = 200 => pollResponse.messages \in Responses(body)

\* a record that takes the offset of the last message of a partition for the highest
RecordHighestLast(ho, msgs) ==
    LET of(q) == { i \in 1 .. Len(msgs) : msgs[i].partition = q }
        last(q) == CHOOSE i \in of(q) : \A j \in of(q) : j <= i
    IN  [q \in DOMAIN ho \cup { msgs[i].partition : i \in 1 .. Len(msgs) } |->
            IF of(q) # {} THEN msgs[last(q)].offset ELSE ho[q]]

RECURSIVE RecordHighest(_, _)
\* TopicMessages.tsx:137-143
RecordHighest(ho, msgs) ==
    IF msgs = <<>> THEN ho
    ELSE LET msg == Head(msgs)
             higher == \/ msg.partition \notin DOMAIN ho
                       \/ BigInt(msg.offset) > BigInt(ho[msg.partition])
         IN  RecordHighest(
                 IF higher
                 THEN [q \in DOMAIN ho \cup { msg.partition } |->
                          IF q = msg.partition THEN msg.offset ELSE ho[q]]
                 ELSE ho,
                 Tail(msgs))

\* `${msg.partition}-${msg.offset}`
OffsetKey(msg) == <<msg.partition, msg.offset>>

\* TopicMessages.tsx:148-150
ExistingOffsetKeys(stored) == { OffsetKey(stored[i]) : i \in 1 .. Len(stored) }

\* TopicMessages.tsx:152-154
NewMessages(stored, msgs) ==
    SelectSeq(msgs, LAMBDA msg : OffsetKey(msg) \notin ExistingOffsetKeys(stored))

\* msgs.slice(-n) for n > 0
SliceLast(msgs, n) ==
    IF Len(msgs) > n THEN SubSeq(msgs, Len(msgs) - n + 1, Len(msgs)) ELSE msgs

\* TopicMessages.tsx:146
Appends(sp) == sp.readingMode = "latest" /\ sp.autoRefresh

\* TopicMessages.tsx:156-164
Accumulate(stored, msgs, limit) ==
    IF NewMessages(stored, msgs) # <<>>
    THEN SliceLast(stored \o NewMessages(stored, msgs), limit)
    ELSE stored

\* TopicMessages.tsx:135-171: allMessages.current after the response msgs
StoredAfter(sp, stored, msgs) ==
    IF msgs = <<>> THEN stored
    ELSE IF Appends(sp) THEN Accumulate(stored, msgs, sp.limit)
    ELSE msgs

\* a return that hands on what the poll answered when it answered nothing
ReturnedMessagesAsReceived(sp, stored, msgs) ==
    IF msgs # <<>> THEN StoredAfter(sp, stored, msgs) ELSE msgs

\* TopicMessages.tsx:135-177: messagesData.messages as the query function returns it
ReturnedMessages(sp, stored, msgs) ==
    IF msgs # <<>> THEN StoredAfter(sp, stored, msgs)
    ELSE IF sp.autoRefresh /\ stored # <<>> THEN stored
    ELSE msgs

NoData == [autoRefresh |-> FALSE, empty |-> FALSE, messages |-> <<>>]

\* the bag of runs with one more run, and with one run less
Started(runs, run) == runs (+) SetToBag({ run })
Finished(runs, run) == runs (-) SetToBag({ run })

\* the component mounted: the refs are empty and the first run of the query
\* function has sent its request
BrowseStart ==
    /\ searchParams = FirstSearchParams
    /\ highestOffsets = NoOffsets
    /\ allMessages = <<>>
    /\ polls = SetToBag({ QueryRun(FirstSearchParams, NoOffsets) })
    /\ hasData = FALSE
    /\ messagesData = NoData
    /\ searches = 0
    /\ produced = 0
    /\ resets = 0

-----------------------------------------------------------------------------
(* The message browser: the steps                                          *)

\* a reset that leaves the highest offsets
ResetStoredMessagesOnly ==
    /\ allMessages' = <<>>
    /\ UNCHANGED highestOffsets
    /\ resets' = resets + 1

\* TopicMessages.tsx:75-76, 444-445
ResetStored ==
    /\ allMessages' = <<>>
    /\ highestOffsets' = NoOffsets
    /\ resets' = resets + 1

\* a run with the searchParams of the last render awaits its response
Fetching == \E run \in BagToSet(polls) : run.searchParams = searchParams

\* TopicMessages.tsx:82-125: the query function runs up to its fetch.  The
\* refetch interval (180), a refetch on window focus (182) and "Try Again"
\* (348) start it with the searchParams of the last render, and start
\* nothing while a run with these searchParams awaits its response
Refetch ==
    /\ ~Fetching
    /\ polls' = Started(polls, QueryRun(searchParams, highestOffsets))
    /\ UNCHANGED <<searchParams, highestOffsets, allMessages, hasData, messagesData,
                   searches, produced, resets>>
    /\ UNCHANGED <<metricsVars, topicsVars, removeVars, pollVars>>

\* TopicMessages.tsx:186-188, 73-77, 80-125: handleSearch sets new
\* searchParams, the form's values after one field was changed; after the render the effects run in the order of the hooks:
\* the reset when one of its dependencies changed, then the query of the new
\* key, which has no data, and whose function composes its body from the refs
\* as they are by then
HandleSearch ==
    /\ searches < MaxSearches
    /\ \E params \in SearchParams :
        /\ OneFieldChanged(searchParams, params)
        /\ searchParams' = params
        /\ IF ResetDeps(params) # ResetDeps(searchParams)
           THEN ResetStored
           ELSE UNCHANGED <<allMessages, highestOffsets, resets>>
        /\ polls' = Started(polls, QueryRun(params, highestOffsets'))
    /\ hasData' = FALSE
    /\ searches' = searches + 1
    /\ UNCHANGED <<messagesData, produced>>
    /\ UNCHANGED <<metricsVars, topicsVars, removeVars, pollVars>>

\* TopicMessages.tsx:436-449: a message was produced.  refetch() starts a
\* run beside the one that awaits its response, and hands back that one
\* when the query has no data yet
ProduceSuccess ==
    /\ produced < MaxProduced
    /\ ResetStored
    /\ polls' = IF Fetching /\ ~hasData
                THEN polls
                ELSE Started(polls, QueryRun(searchParams, highestOffsets'))
    /\ produced' = produced + 1
    /\ UNCHANGED <<searchParams, hasData, messagesData, searches>>
    /\ UNCHANGED <<metricsVars, topicsVars, removeVars, pollVars>>

\* TopicMessages.tsx:132-177: a run receives its response and ingests it
\* with the searchParams it closed over and the refs as they are now
Ingest(run, msgs) ==
    /\ highestOffsets' = RecordHighest(highestOffsets, msgs)
    /\ allMessages' = StoredAfter(run.searchParams, allMessages, msgs)
    /\ messagesData' =
           [autoRefresh |-> run.searchParams.autoRefresh,
            empty |-> msgs = <<>>,
            messages |-> ReturnedMessages(run.searchParams, allMessages, msgs)]
    /\ polls' = Finished(polls, run)
    /\ hasData' = (hasData \/ run.searchParams = searchParams)
    /\ UNCHANGED <<searchParams, searches, produced, resets>>

Complete ==
    /\ \E run \in BagToSet(polls) : \E msgs \in Responses(run.body) : Ingest(run, msgs)
    /\ UNCHANGED <<metricsVars, topicsVars, removeVars, pollVars>>

\* TopicMessages.tsx:127-130: the response is not ok and the run throws
PollFails ==
    /\ \E run \in BagToSet(polls) : polls' = Finished(polls, run)
    /\ UNCHANGED <<searchParams, highestOffsets, allMessages, hasData, messagesData,
                   searches, produced, resets>>
    /\ UNCHANGED <<metricsVars, topicsVars, removeVars, pollVars>>

NextBrowse ==
    \/ Refetch
    \/ HandleSearch
    \/ ProduceSuccess
    \/ Complete
    \/ PollFails

-----------------------------------------------------------------------------
(* The specifications                                                      *)

Init == MetricsStart /\ TopicsStart /\ RemoveStart /\ PollStart /\ BrowseStart

SpecMetrics == Init /\ [][NextMetrics]_vars

SpecTopics == Init /\ [][NextTopics]_vars

SpecRemove == Init /\ [][NextRemove]_vars

SpecPoll == Init /\ [][NextPoll]_vars

SpecBrowse == Init /\ [][NextBrowse]_vars

\* the awaited calls return, the timeout fires and the handler goes on; no
\* message has to arrive
SpecPollFair ==
    /\ SpecPoll
    /\ WF_vars(PollConnect \/ PollSubscribe \/ RunConsumer \/ SeekSpecific \/ SeekNext
                  \/ LatestConnect \/ LatestFetchTopicOffsets \/ LatestSeek
                  \/ LatestDisconnect \/ SetTimeout \/ CatchRunError)
    /\ WF_vars(TimerFires)
    /\ WF_vars(Respond)

-----------------------------------------------------------------------------
(* Lag accounting: the claims                                              *)

\* exact arithmetic on the numbers the offset strings spell
Committed(pd) == ParseInt(pd.offset)
HasBounds(pd) == \E k \in 1 .. Len(topicOffsets) : topicOffsets[k].partition = pd.partition
BoundsOf(pd) == topicOffsets[CHOOSE k \in 1 .. Len(topicOffsets) :
                                topicOffsets[k].partition = pd.partition]
ExactLag(pd) ==
    IF Committed(pd) > ParseInt(BoundsOf(pd).high) THEN 0
    ELSE ParseInt(BoundsOf(pd).high) - Committed(pd)

RECURSIVE Sum(_)
\* the sum of a function's values
Sum(f) ==
    IF DOMAIN f = {} THEN 0
    ELSE LET x == CHOOSE y \in DOMAIN f : TRUE
         IN  f[x] + Sum([y \in DOMAIN f \ {x} |-> f[y]])

\* the group whose turn has just ended, and what its fetch answered for the topic
TurnEnded == pc = "groups" /\ gi > 1
TurnGroup == consumerGroups[gi - 1]
TurnPartitions ==
    IF \E i \in 1 .. Len(fetched.offsets) : fetched.offsets[i].topic = TopicName
    THEN (CHOOSE d \in { fetched.offsets[i] : i \in 1 .. Len(fetched.offsets) } :
            d.topic = TopicName).partitions
    ELSE <<>>
\* the partitions that count: a committed offset and a bounds entry
Counted == { i \in 1 .. Len(TurnPartitions) :
                TurnPartitions[i].offset # "-1" /\ HasBounds(TurnPartitions[i]) }
HasEntry(g) == \E i \in 1 .. Len(consumerGroupLags) : consumerGroupLags[i].groupId = g
LastEntry == consumerGroupLags[Len(consumerGroupLags)]

\* C1: the lag of a group that has a committed offset on a partition with bounds
\* is the sum, over those partitions, of max(0, high - committed), each term
\* being what PartitionLag adds and never negative, also when committed > high.
C1_PartitionLagClamped ==
    (TurnEnded /\ Counted # {}) =>
        /\ HasEntry(TurnGroup)
        /\ LastEntry.groupId = TurnGroup
        /\ LastEntry.lag = Sum([i \in Counted |-> ExactLag(TurnPartitions[i])])
        /\ \A i \in Counted :
            /\ PartitionLag(BoundsOf(TurnPartitions[i]).high, TurnPartitions[i].offset)
                    = ExactLag(TurnPartitions[i])
            /\ ExactLag(TurnPartitions[i]) >= 0

\* a group committed beyond the high watermark of one partition and behind it on another
C1_Witness ==
    /\ TurnEnded
    /\ \E i, j \in Counted :
        /\ Committed(TurnPartitions[i]) > ParseInt(BoundsOf(TurnPartitions[i]).high)
        /\ Committed(TurnPartitions[j]) < ParseInt(BoundsOf(TurnPartitions[j]).high)
    /\ LastEntry.lag > 0

Returned == pc = "done" /\ response.hasMetrics
Lags == response.metrics.consumerGroupLags

\* C2 as stated: the topic lag is the maximum group lag when a group
\* contributes, and it equals totalMessages exactly when no group contributes.
C2_AsStated ==
    Returned =>
        /\ Lags # <<>> =>
            /\ \A i \in 1 .. Len(Lags) : Lags[i].lag <= response.metrics.lag
            /\ \E i \in 1 .. Len(Lags) : Lags[i].lag = response.metrics.lag
        /\ (response.metrics.lag = response.metrics.totalMessages) <=> (Lags = <<>>)

\* C2, amended: the topic lag is the maximum group lag when a group
\* contributes, and totalMessages when none does (the two may coincide).
C2_TopicLag ==
    Returned =>
        IF Lags # <<>>
        THEN /\ \A i \in 1 .. Len(Lags) : Lags[i].lag <= response.metrics.lag
             /\ \E i \in 1 .. Len(Lags) : Lags[i].lag = response.metrics.lag
        ELSE response.metrics.lag = response.metrics.totalMessages

\* the only contributing group is caught up on a topic that holds messages
C2_Witness ==
    /\ Returned
    /\ Len(Lags) = 1
    /\ Lags[1].lag = 0
    /\ response.metrics.totalMessages > 0
    /\ response.metrics.lag = 0

\* C3: a group has an entry only if it has a committed (not "-1") offset on a
\* partition of the topic; with "-1" on every partition it has none.
C3_SentinelOnlyGroupAbsent ==
    TurnEnded =>
        /\ HasEntry(TurnGroup) =>
            /\ ~fetched.threw
            /\ \E i \in 1 .. Len(TurnPartitions) : TurnPartitions[i].offset # "-1"
        /\ (\A i \in 1 .. Len(TurnPartitions) : TurnPartitions[i].offset = "-1")
                => ~HasEntry(TurnGroup)

\* a group with "-1" on every partition of a topic that has those partitions
C3_Witness ==
    /\ TurnEnded
    /\ Len(TurnPartitions) = MaxPartitions
    /\ Len(topicOffsets) = MaxPartitions
    /\ \A i \in 1 .. Len(TurnPartitions) : TurnPartitions[i].offset = "-1"
    /\ ~HasEntry(TurnGroup)

HighMinusLow ==
    [k \in 1 .. Len(topicOffsets) |->
        ParseInt(topicOffsets[k].high) - ParseInt(topicOffsets[k].low)]

\* C4: totalMessages is the sum of high - low over the partitions; with no
\* partition it is 0 and consumerGroupLags is empty whatever the groups committed.
C4_TotalMessages ==
    /\ pc \in {"listGroups", "groups"} =>
            totalMessages = Sum(HighMinusLow)
    /\ Returned =>
            /\ response.metrics.totalMessages = Sum(HighMinusLow)
            /\ topicOffsets = <<>> =>
                    /\ response.metrics.totalMessages = 0
                    /\ Lags = <<>>

\* a topic without partitions, and a group that reports committed offsets for it
C4_Witness ==
    /\ Returned
    /\ topicOffsets = <<>>
    /\ \E i \in 1 .. Len(TurnPartitions) : TurnPartitions[i].offset # "-1"
    /\ response.metrics.totalMessages = 0

\* C5: a group whose committed-offset fetch fails is skipped: the turn leaves
\* the entries of the other groups, the bounds and the total as they were,
\* ends no request and goes on to the next group, as if the group were not listed.
C5_FailedFetchSkipsGroup ==
    [][(pc = "groups" /\ gi <= Len(consumerGroups) /\ fetched'.threw) =>
            /\ consumerGroupLags' = consumerGroupLags
            /\ topicOffsets' = topicOffsets
            /\ totalMessages' = totalMessages
            /\ response' = response
            /\ pc' = "groups"
            /\ gi' = gi + 1]_vars

\* a summary was returned with another group's entry after a group's fetch failed
C5_Witness ==
    /\ Returned
    /\ fetched.threw
    /\ Len(Lags) >= 1
    /\ Lags[1].groupId # consumerGroups[Len(consumerGroups)]

\* C6: the request ends in a fatal error when the initial bounds fetch fails
\* and in no other case once connected: no later cluster call's failure is fatal.
C6_FatalOnlyOnBoundsFetch ==
    (pc = "done" /\ response.status = 500) =>
        response.details \in {"connect", "fetchTopicOffsets"}

-----------------------------------------------------------------------------
(* Lag accounting: the order of the groups                                 *)

\* what admin.fetchOffsets may do for a group: throw, or answer
GroupFetches ==
    { [threw |-> TRUE, offsets |-> <<>>] }
    \cup { [threw |-> FALSE, offsets |-> offs] : offs \in FetchOffsetsAnswers }

\* consumerGroupLags after the turn of one group whose fetch did f
AfterTurn(lags, groupId, f, tos) ==
    IF groupId = "" \/ f.threw THEN lags ELSE PushGroupLag(lags, groupId, f.offsets, tos)

RECURSIVE LagsOf(_, _, _, _)
\* consumerGroupLags after the first i groups, each fetch doing what fetches
\* says for its group
LagsOf(groups, fetches, tos, i) ==
    IF i = 0 THEN <<>>
    ELSE IF groups[i] = "" THEN LagsOf(groups, fetches, tos, i - 1)
    ELSE AfterTurn(LagsOf(groups, fetches, tos, i - 1), groups[i], fetches[groups[i]], tos)

\* the summary of a request that processes the groups in the given order
SummaryOf(groups, fetches, tos) ==
    LET lags == LagsOf(groups, fetches, tos, Len(groups))
    IN  [totalMessages |-> TotalMessages(tos),
         lag |-> TotalLag(lags, TotalMessages(tos)),
         entries |-> { lags[i] : i \in 1 .. Len(lags) }]

Permuted(groups, p) == [i \in 1 .. Len(groups) |-> groups[p[i]]]

\* C27: the summary does not depend on the order of the group list: when
\* the groups are listed, every permutation of the list gives, for the same
\* answers of the groups, the same totalMessages, the same topic lag and the
\* same set of (groupId, lag) entries; and the request computes its summary
\* turn by turn as the groups stand in the list.
C27_LagOrderIndependent ==
    [][/\ (pc = "listGroups" /\ pc' = "groups") =>
            \A fetches \in [{ consumerGroups'[i] : i \in 1 .. Len(consumerGroups') } \ { "" }
                                -> GroupFetches] :
                \A p \in Permutations(1 .. Len(consumerGroups')) :
                    SummaryOf(Permuted(consumerGroups', p), fetches, topicOffsets)
                        = SummaryOf(consumerGroups', fetches, topicOffsets)
       /\ (pc = "groups" /\ gi' = gi + 1) =>
            /\ consumerGroupLags' =
                    AfterTurn(consumerGroupLags, consumerGroups[gi], fetched', topicOffsets)
            /\ totalMessages' = totalMessages
       /\ (pc = "groups" /\ pc' = "done" /\ response'.status = 200) =>
            /\ response'.metrics.totalMessages = TotalMessages(topicOffsets)
            /\ response'.metrics.lag = TotalLag(consumerGroupLags, totalMessages)
            /\ response'.metrics.consumerGroupLags = consumerGroupLags]_vars

\* a summary with the entries of two groups, the group of the higher lag
\* processed last
C27_Witness ==
    /\ pc = "done" /\ response.status = 200
    /\ Len(response.metrics.consumerGroupLags) = 2
    /\ response.metrics.consumerGroupLags[1].lag < response.metrics.consumerGroupLags[2].lag
    /\ response.metrics.lag = response.metrics.consumerGroupLags[2].lag

-----------------------------------------------------------------------------
(* Forced removal: the claims                                              *)

CallsOf(op) == { i \in 1 .. Len(calls) : calls[i].op = op }
DeleteCalls == Cardinality(CallsOf("admin.deleteGroups"))
FailedDeletes == Cardinality({ i \in CallsOf("admin.deleteGroups") : ~calls[i].ok })
DeleteSucceeded == \E i \in CallsOf("admin.deleteGroups") : calls[i].ok
ConsumerCalls == { i \in 1 .. Len(calls) :
                    calls[i].op \in {"consumer.connect", "consumer.subscribe", "consumer.run",
                                     "consumer.stop", "consumer.disconnect"} }
Names(message, word) == \E i \in 1 .. Len(message) : message[i] = word
RunEnded == fpc \in {"finally", "returned"}

\* C7: a run on a 'kafka-ui-' group whose 3 deletion attempts all fail returns
\* success:true with the "marked as removed" message and a details string, and
\* DELETE answers 200 with it, not an error.
C7_UiGroupMarkedAsRemoved ==
    (RunEnded /\ request.groupId = UiGroup /\ FailedDeletes = 3) =>
        /\ result.kind = "return"
        /\ result.success
        /\ result.message = <<"Consumer group \"", UiGroup, "\" marked as removed">>
        /\ result.details # ""
        /\ fpc = "returned" =>
            /\ httpResponse.status = 200
            /\ httpResponse.hasSuccess /\ httpResponse.success
            /\ httpResponse.message = result.message
            /\ httpResponse.details = <<result.details>>
            /\ httpResponse.error = ""

C7_Witness ==
    /\ fpc = "returned"
    /\ request.groupId = UiGroup
    /\ FailedDeletes = 3
    /\ httpResponse.status = 200

\* C8 as stated: a run on a group that is not UI-managed whose 3 deletion
\* attempts all fail returns success:false with an error that names the group
\* and the attempt count.
C8_AsStated ==
    (fpc = "returned" /\ request.groupId = ServiceGroup /\ FailedDeletes = 3) =>
        /\ result.kind = "return"
        /\ ~result.success
        /\ httpResponse.hasSuccess /\ ~httpResponse.success
        /\ Names(httpResponse.details, ServiceGroup)
        /\ Names(httpResponse.details, ToString(FailedDeletes))

\* C8, amended: such a run returns nothing: it throws an Error whose message
\* names the group and says "multiple attempts"; DELETE answers 500 with the
\* error 'Failed to force remove consumer group', that message as details, and
\* no success field.
C8_ServiceGroupFails ==
    (RunEnded /\ request.groupId = ServiceGroup /\ FailedDeletes = 3) =>
        /\ result.kind = "throw"
        /\ result.error.name = "Error"
        /\ result.error.message =
                <<"Failed to delete group ", ServiceGroup, " after multiple attempts">>
        /\ fpc = "returned" =>
            /\ httpResponse.status = 500
            /\ ~httpResponse.hasSuccess
            /\ httpResponse.error = "Failed to force remove consumer group"
            /\ httpResponse.details = result.error.message
            /\ Names(httpResponse.details, ServiceGroup)

C8_Witness ==
    /\ fpc = "returned"
    /\ request.groupId = ServiceGroup
    /\ request.specialRemove
    /\ FailedDeletes = 3
    /\ httpResponse.status = 500

\* C9: one run calls deleteGroups at most 3 times; the step whose deleteGroups
\* succeeds sets the "force removed successfully" result and goes to the
\* finally block, and after it no deleteGroups is called and the result stays.
C9_DeleteAtMostThrice ==
    [][/\ DeleteCalls' <= 3
       /\ (~DeleteSucceeded /\ DeleteSucceeded') =>
            /\ result' = ForceRemoved(request.groupId)
            /\ fpc' = "finally"
       /\ DeleteSucceeded =>
            /\ DeleteCalls' = DeleteCalls
            /\ result' = result
            /\ result.kind = "return" /\ result.success]_vars

\* the second attempt succeeded and the run returned
C9_Witness ==
    /\ fpc = "returned"
    /\ DeleteCalls = 2
    /\ DeleteSucceeded
    /\ httpResponse.status = 200
    /\ httpResponse.message =
            <<"Consumer group \"", request.groupId, "\" force removed successfully">>

ZeroMembers ==
    /\ fpc \notin {"idle", "connect", "describe"}
    /\ ~groupInfo.threw /\ groupInfo.found /\ groupInfo.members = 0

\* C10: a run whose describe step reports the group with zero members creates
\* no temporary consumer (no step of the rebalance nudge is taken); what
\* follows the describe call is the offset fetch, and the run does not end
\* without a deletion attempt.
C10_ZeroMembersSkipNudge ==
    ZeroMembers =>
        /\ consumer = "none"
        /\ ConsumerCalls = {}
        /\ fpc \in {"fetchOffsets", "resetOffsets", "deleteGroups", "deleteWait",
                    "finally", "returned"}
        /\ \A i \in CallsOf("admin.describeGroups") :
                i < Len(calls) => calls[i + 1].op = "admin.fetchOffsets"
        /\ RunEnded => CallsOf("admin.fetchOffsets") # {} /\ DeleteCalls >= 1

\* such a run reset a topic's offsets and attempted the deletion
C10_Witness ==
    /\ ZeroMembers
    /\ fpc = "returned"
    /\ CallsOf("admin.resetOffsets") # {}
    /\ DeleteCalls >= 1

-----------------------------------------------------------------------------
(* Connections and the choice of the deletion path: the claims             *)

LastCall == calls[Len(calls)]

\* C11: every way out of forceRemoveGroup (the return after a successful
\* delete, the "marked as removed" return, a thrown error) goes through the
\* finally block, which calls admin.disconnect() once, as the last cluster call
\* of the run; whether that call succeeds or fails, the outcome the run had
\* produced is what the run ends with and what DELETE answers with.
C11_AdminClosedOnEveryExit ==
    [][/\ (fpc # "returned" /\ fpc' = "returned") =>
            /\ fpc = "finally"
            /\ result.kind \in {"return", "throw"}
            /\ Len(calls') = Len(calls) + 1
            /\ calls'[Len(calls')].op = "admin.disconnect"
            /\ calls'[Len(calls')].ok => forcedAdmin' = "disconnected"
            /\ result' = result
            /\ httpResponse' = ForceResponse(result)
       /\ (fpc # "finally" /\ fpc' = "finally") =>
            /\ CallsOf("admin.disconnect") = {}
            /\ result'.kind \in {"return", "throw"}
       /\ fpc = "returned" => calls' = calls /\ result' = result]_vars

\* the deletion was given up with an error, the disconnect of the finally
\* block failed too, and DELETE answers with the error of the deletion
C11_Witness ==
    /\ fpc = "returned"
    /\ result = FailedToDelete(ServiceGroup)
    /\ LastCall.op = "admin.disconnect" /\ ~LastCall.ok
    /\ forcedAdmin = "connected"
    /\ httpResponse.details = FailedToDelete(ServiceGroup).error.message

\* C12: when the topic-metrics request has ended, the admin connection it
\* opened is closed, on the error paths as on the successful one.
C12_MetricsAdminClosed ==
    (pc = "done" /\ admin # "none") => admin = "disconnected"

ValidRequest == dpc # "start" /\ request.brokers /\ request.groupId # ""
ForceRouted == dpc = "forceRemoveGroup" \/ fpc # "idle"
PlainCalls ==
    { i \in 1 .. Len(calls) :
        calls[i].op \in {"plain.connect", "plain.listGroups", "plain.deleteGroups",
                         "plain.disconnect"} }

\* C19 as stated: a request for a 'kafka-ui-' group, or with the force flag,
\* or with the specialRemove flag, is handled by forceRemoveGroup and issues
\* no call of the plain path.
C19_AsStated ==
    (ValidRequest /\ (StartsWithKafkaUi(request.groupId) \/ request.force
                        \/ request.specialRemove)) =>
        /\ ForceRouted
        /\ PlainCalls = {}

\* C19, amended: a request is handled by forceRemoveGroup, and issues no call
\* of the plain path, exactly when its group id starts with 'kafka-ui-' or
\* its specialRemove flag is set; the force flag alone leaves a request for
\* another group on the plain path, whose single deleteGroups call it allows
\* for an active group.
C19_ForceRemoveRouting ==
    ValidRequest =>
        /\ ForceRouted <=> (StartsWithKafkaUi(request.groupId) \/ request.specialRemove)
        /\ ForceRouted => PlainCalls = {}
        /\ ~ForceRouted =>
            /\ \A i \in 1 .. Len(calls) : i \in PlainCalls
            /\ Cardinality(CallsOf("plain.deleteGroups")) <= 1

\* a force-flagged request for an active group of a service was answered by
\* the plain delete call
C19_Witness ==
    /\ dpc = "done"
    /\ request.groupId = ServiceGroup
    /\ request.force /\ ~request.specialRemove
    /\ \E i \in CallsOf("plain.listGroups") : calls[i].arg = "active"
    /\ \E i \in CallsOf("plain.deleteGroups") : calls[i].ok
    /\ httpResponse.status = 200
    /\ fpc = "idle"

ListedActive == \E i \in CallsOf("plain.listGroups") : calls[i].ok /\ calls[i].arg = "active"

\* C20: on the plain path, once listGroups has shown the group with a
\* protocolType and force is not set, no deleteGroups call is issued; the
\* request ends with an error: 400 'Cannot delete active consumer group', or
\* the 500 of the outer catch when the disconnect before the answer fails.
C20_ActiveGroupRefused ==
    (ListedActive /\ ~request.force) =>
        /\ CallsOf("plain.deleteGroups") = {}
        /\ CallsOf("admin.deleteGroups") = {}
        /\ dpc \in {"refuse.disconnect", "catch.disconnect", "done"}
        /\ dpc = "done" =>
            /\ ~httpResponse.hasSuccess
            /\ IF \A i \in CallsOf("plain.disconnect") : calls[i].ok
               THEN /\ httpResponse.status = 400
                    /\ httpResponse.error = "Cannot delete active consumer group"
               ELSE /\ httpResponse.status = 500
                    /\ httpResponse.error = "Failed to delete consumer group"

C20_Witness ==
    /\ ListedActive /\ ~request.force
    /\ dpc = "done"
    /\ httpResponse.status = 400
    /\ httpResponse.error = "Cannot delete active consumer group"
    /\ plainAdmin = "disconnected"

-----------------------------------------------------------------------------
(* Forced removal: the order of the stages and their failures               *)

\* the stage of forceRemoveGroup a cluster call belongs to
StageOf(op) ==
    CASE op = "admin.connect" -> 0
      [] op = "admin.describeGroups" -> 1
      [] op \in {"consumer.connect", "consumer.subscribe", "consumer.run",
                 "consumer.stop", "consumer.disconnect"} -> 2
      [] op \in {"admin.fetchOffsets", "admin.resetOffsets"} -> 3
      [] op = "admin.deleteGroups" -> 4
      [] op = "admin.disconnect" -> 5
      [] OTHER -> 0

\* the calls of a run are issued stage after stage
CallsInStageOrder ==
    \A i, j \in 1 .. Len(calls) : i < j => StageOf(calls[i].op) <= StageOf(calls[j].op)

\* the temporary consumer has connected and has not disconnected
ConsumerOpen == consumer \in {"connected", "running", "stopped"}
NudgeLeft == fpc \in {"fetchOffsets", "resetOffsets", "deleteGroups", "deleteWait",
                      "finally", "returned"}

\* C21: the stages run in the order Describe, Rebalance nudge, Offset reset,
\* Delete, Fallback without overlap: no deleteGroups call is issued before the
\* last offset reset, and no offset fetch or reset is issued while the
\* temporary consumer of the nudge, when it ran, is still connected.
C21_StagesStrictlyOrdered ==
    /\ CallsInStageOrder
    /\ (CallsOf("admin.fetchOffsets") \cup CallsOf("admin.resetOffsets")) # {} =>
            ~ConsumerOpen

AdminConnected == \E i \in CallsOf("admin.connect") : calls[i].ok
ResetStageLeft == fpc \in {"deleteGroups", "deleteWait", "finally", "returned"}
FetchedOffsets == \E i \in CallsOf("admin.fetchOffsets") : calls[i].ok
StageFailed ==
    \E i \in 1 .. Len(calls) : StageOf(calls[i].op) \in {1, 2, 3} /\ ~calls[i].ok

\* C22: once the admin client is connected, a failure in the describe stage,
\* the nudge or the offset reset does not end the run: every topic that has
\* partitions in the fetched offsets is reset once, in order, whatever the
\* earlier resets answered; the run ends only after a deletion attempt; and
\* its outcome is the one of the deletion attempts and the group id.
C22_StageFailuresAbsorbed ==
    AdminConnected =>
        /\ (ResetStageLeft /\ FetchedOffsets) =>
                \A k \in 1 .. Len(groupOffsets) :
                    Cardinality({ i \in CallsOf("admin.resetOffsets") :
                                    calls[i].arg = groupOffsets[k].topic })
                        = IF groupOffsets[k].partitions > 0 THEN 1 ELSE 0
        /\ RunEnded =>
                /\ DeleteCalls >= 1
                /\ result = IF DeleteSucceeded
                            THEN ForceRemoved(request.groupId)
                            ELSE Fallback(request.groupId)
                /\ ~DeleteSucceeded => FailedDeletes = MaxDeleteAttempts

\* the describe call and the reset of the first topic failed, the second
\* topic was reset all the same, and the deletion succeeded
C22_Witness ==
    /\ fpc = "returned"
    /\ \E i \in CallsOf("admin.describeGroups") : ~calls[i].ok
    /\ \E i, j \in CallsOf("admin.resetOffsets") : i < j /\ ~calls[i].ok
    /\ result = ForceRemoved(request.groupId)
    /\ httpResponse.status = 200

\* C23: when the rebalance nudge has ended, the temporary consumer it
\* connected is disconnected, also when its subscribe, run, stop or disconnect
\* call failed after connect succeeded.
C23_TemporaryConsumerClosed ==
    (NudgeLeft /\ \E i \in CallsOf("consumer.connect") : calls[i].ok) =>
        consumer = "disconnected"

-----------------------------------------------------------------------------
(* Message polls: the claims                                               *)

\* consumer.run has been called
Ran == pollConsumer \notin {"none", "connected"}
\* the body of the executor has left its seeks behind
SeeksDone == Ran /\ mpc \in {"setTimeout", "ended"}
Entries == body.highestOffsets.entries
EntryKeys == SortedKeys(DOMAIN Entries)

\* C14: a poll sent with highest offsets seeks every partition of the map to
\* highest + 1, never to highest, and issues no other seek.
C14_SeeksToNextOffset ==
    (SeeksDone /\ HasEntries(body.highestOffsets)) =>
        /\ Len(seeks) = Len(EntryKeys)
        /\ \A i \in 1 .. Len(seeks) :
            /\ seeks[i].partition = EntryKeys[i]
            /\ ParseInt(seeks[i].offset) = ParseInt(Entries[EntryKeys[i]]) + 1

\* what the seeks are: a poll sent with highest offsets seeks every partition
\* of the map once, in ascending order, to highest + 1 and never to highest,
\* whether a seek succeeds or not, unless its body names a partition and an
\* offset with readingMode 'specific': that poll issues one seek, to the
\* partition and the offset of the body.
SeeksFollowBody ==
    (Ran /\ HasEntries(body.highestOffsets)) =>
        IF AfterRun(body) = "seek.specific"
        THEN /\ Len(seeks) <= 1
             /\ SeeksDone => Len(seeks) = 1
             /\ \A i \in 1 .. Len(seeks) :
                    seeks[i].partition = body.partition /\ seeks[i].offset = body.offset
        ELSE /\ Len(seeks) <= Len(EntryKeys)
             /\ SeeksDone => Len(seeks) = Len(EntryKeys)
             /\ \A i \in 1 .. Len(seeks) :
                    /\ seeks[i].partition = EntryKeys[i]
                    /\ ParseInt(seeks[i].offset) = ParseInt(Entries[EntryKeys[i]]) + 1
                    /\ seeks[i].offset # Entries[EntryKeys[i]]

\* C18: a poll that has not collected the requested number of messages when
\* its timeout fires ends there and answers 200 with the messages collected.
C18_TimeoutReturnsCollected ==
    (timer = "fired" /\ messageCount < body.limit /\ pollResponse # NoPollResponse) =>
        /\ pollResponse.status = 200
        /\ pollResponse.messages = SliceToLimit(SortByTimestamp(messages), body.limit)

\* every poll that was received is answered
PollTerminates == (mpc # "start") ~> (pollResponse # NoPollResponse)

\* the promise settles once: what the answer was made from stays
PollAnswersOnce ==
    [][pollResponse # NoPollResponse => pollResponse' = pollResponse]_vars

-----------------------------------------------------------------------------
(* The message browser: the claims                                         *)

\* the runs that await their response beside a given one
Others(run) == BagToSet(Finished(polls, run))

\* C13: in latest/auto-refresh mode, ingesting the same batch twice in a row
\* leaves the buffer after the second ingest equal to the buffer after the
\* first.  Stated of every batch that two awaiting runs may both receive,
\* ingested by the one and then by the other into the buffer as it is.
C13_IngestTwiceIsIngestOnce ==
    \A first \in BagToSet(polls) : \A second \in Others(first) :
        (Appends(first.searchParams) /\ Appends(second.searchParams)) =>
            \A msgs \in Responses(first.body) \cap Responses(second.body) :
                StoredAfter(second.searchParams,
                            StoredAfter(first.searchParams, allMessages, msgs), msgs)
                    = StoredAfter(first.searchParams, allMessages, msgs)

\* no (partition, offset) pair twice in a list of messages
NoPairTwice(stored) ==
    \A i, j \in 1 .. Len(stored) : i # j => OffsetKey(stored[i]) # OffsetKey(stored[j])

\* msg lies above the highest offset recorded for its partition, if any
AboveRecorded(msg) ==
    msg.partition \in DOMAIN highestOffsets =>
        BigInt(msg.offset) > BigInt(highestOffsets[msg.partition])

\* the first session as it started (latest, auto-refresh), never reset: its
\* runs follow one another
FirstSession == resets = 0 /\ searches = 0

\* whatever a refresh poll of the first session answers lies above the
\* highest offsets recorded
RefreshAboveRecorded ==
    FirstSession =>
        \A run \in BagToSet(polls) :
            HasEntries(run.body.highestOffsets) =>
                \A msgs \in Responses(run.body) :
                    \A k \in 1 .. Len(msgs) : AboveRecorded(msgs[k])

\* C15: across the polls of one latest/auto-refresh session without a reset,
\* the buffer never holds the same (partition, offset) twice, and a refresh
\* poll never returns a message at or below the highest offset recorded for
\* its partition.
C15_NeverResurfaced ==
    /\ FirstSession => NoPairTwice(allMessages)
    /\ RefreshAboveRecorded

\* the runs a step starts
StartedRuns == BagToSet(polls' (-) polls)

\* C16: a change of the topic, the partition filter, the search text, the
\* offset or the reading mode clears the highest offsets and the buffer
\* before the next poll is issued, and that poll carries no highest offsets.
C16_ResetBeforeNextPoll ==
    [][ResetDeps(searchParams') # ResetDeps(searchParams) =>
           /\ allMessages' = <<>>
           /\ highestOffsets' = NoOffsets
           /\ StartedRuns # {}
           /\ \A run \in StartedRuns :
                   /\ run.searchParams = searchParams'
                   /\ ~HasEntries(run.body.highestOffsets)]_vars

\* a session that had ingested messages was reset by a search, and the poll
\* of the new session awaits its response
C16_Witness ==
    /\ searches = 1
    /\ produced = 0
    /\ resets = 1
    /\ messagesData.messages # <<>>
    /\ allMessages = <<>>
    /\ highestOffsets = NoOffsets
    /\ \E run \in BagToSet(polls) :
           run.searchParams = searchParams /\ ~HasEntries(run.body.highestOffsets)

\* C17 as stated: a poll that returns no message leaves the buffer as it is
\* and its result shows the buffer, in every mode.
C17_AsStated ==
    [][\A run \in BagToSet(polls) :
           Ingest(run, <<>>) =>
               /\ allMessages' = allMessages
               /\ messagesData'.messages = allMessages]_vars

\* C17: a poll that returns no message leaves the buffer and the highest
\* offsets as they are in every mode; its result shows the buffer when the
\* run closed over autoRefresh true, and no message when over false.
C17_EmptyPollKeepsBuffer ==
    [][\A run \in BagToSet(polls) :
           Ingest(run, <<>>) =>
               /\ allMessages' = allMessages
               /\ highestOffsets' = highestOffsets
               /\ messagesData'.messages =
                      IF run.searchParams.autoRefresh THEN allMessages ELSE <<>>]_vars

\* an auto-refresh poll answered nothing and its result shows the buffer
C17_Witness ==
    /\ messagesData.empty
    /\ messagesData.autoRefresh
    /\ messagesData.messages # <<>>
    /\ messagesData.messages = allMessages

\* a poll without auto-refresh answered nothing while the buffer held messages
EmptyResultOverBuffer ==
    /\ messagesData.empty
    /\ ~messagesData.autoRefresh
    /\ messagesData.messages = <<>>
    /\ allMessages # <<>>

-----------------------------------------------------------------------------
(* Message polls: the connections                                          *)

\* C24: when a poll has answered, the consumer it connected, and the admin
\* client it opened in latest mode without offsets, are disconnected, on the
\* successful path as on the paths through a catch.
C24_PollReleasesConnections ==
    pollResponse # NoPollResponse =>
        /\ pollConsumer \in {"none", "disconnected"}
        /\ pollAdmin \in {"none", "disconnected"}

-----------------------------------------------------------------------------
(* The message browser: the highest offsets and the size of the buffer     *)

\* the offsets of partition q in a batch, and with the recorded one
BatchOffsets(msgs, q) ==
    { BigInt(msgs[i].offset) : i \in { j \in 1 .. Len(msgs) : msgs[j].partition = q } }
SeenOffsets(ho, msgs, q) ==
    BatchOffsets(msgs, q) \cup (IF q \in DOMAIN ho THEN { BigInt(ho[q]) } ELSE {})
Highest(offsets) == CHOOSE n \in offsets : \A k \in offsets : k <= n

\* after the batch, the map ho2 holds for every partition the highest offset
\* of the map ho and the batch
HighestIsMax(ho, msgs, ho2) ==
    /\ DOMAIN ho2 = { q \in BrowsePartitions : SeenOffsets(ho, msgs, q) # {} }
    /\ \A q \in DOMAIN ho2 : BigInt(ho2[q]) = Highest(SeenOffsets(ho, msgs, q))

\* C25: in a step that is no reset, no entry of the highest-offset map
\* disappears or decreases, and the ingest of a batch leaves for every
\* partition the maximum, as integers, of the entry and the batch's offsets.
C25_HighestOffsetsMonotone ==
    [][resets' = resets =>
          /\ DOMAIN highestOffsets \subseteq DOMAIN highestOffsets'
          /\ \A q \in DOMAIN highestOffsets :
                  BigInt(highestOffsets'[q]) >= BigInt(highestOffsets[q])
          /\ \A run \in BagToSet(polls) : \A msgs \in Responses(run.body) :
                  Ingest(run, msgs) =>
                      HighestIsMax(highestOffsets, msgs, highestOffsets')]_vars

\* both partitions stand at their highest offset, and the message ingested
\* last has a lower one
C25_Witness ==
    /\ resets = 0
    /\ DOMAIN highestOffsets = BrowsePartitions
    /\ \A q \in BrowsePartitions : highestOffsets[q] = String(MaxHigh - 1)
    /\ allMessages # <<>>
    /\ BigInt(allMessages[Len(allMessages)].offset) < MaxHigh - 1

\* C26: the ingest of a batch in latest mode with auto-refresh leaves at
\* most limit messages in the buffer, and when it cuts the buffer it keeps
\* the last limit messages of the buffer followed by the new messages.
C26_BufferWithinLimit ==
    [][\A run \in BagToSet(polls) : \A msgs \in Responses(run.body) :
          (Appends(run.searchParams) /\ msgs # <<>> /\ Ingest(run, msgs)) =>
              LET appended == allMessages \o NewMessages(allMessages, msgs)
              IN  /\ Len(allMessages') <= run.searchParams.limit
                  /\ (NewMessages(allMessages, msgs) # <<>>
                        /\ Len(appended) > run.searchParams.limit) =>
                          allMessages' = SliceLast(appended, run.searchParams.limit)]_vars

-----------------------------------------------------------------------------
(* The topic listing: the lag of a topic                                   *)

RECURSIVE CommittedLag(_, _, _)
\* the lag of the partitions from the i-th on on which the group has committed
CommittedLag(parts, tos, i) ==
    IF i > Len(parts) THEN 0
    ELSE LET k == FindTopicOffset(tos, parts[i].partition)
         IN  (IF parts[i].offset = "-1" \/ k = 0 THEN 0
              ELSE MathMax(0, ParseInt(tos[k].high) - ParseInt(parts[i].offset)))
                + CommittedLag(parts, tos, i + 1)

\* C28: the turn of a group adds to the lag of the topic the lag of the
\* partitions on which the group has committed, and nothing for a partition
\* whose committed offset is "-1".
C28_SentinelAddsNoLag ==
    [][(lpc = "groups" /\ lgi' = lgi + 1 /\ ~listFetched'.threw
            /\ listFetched'.offsets # <<>>) =>
          totalLag' = totalLag
                        + CommittedLag(listFetched'.offsets[1].partitions, listTopicOffsets, 1)]_vars

-----------------------------------------------------------------------------
(* The message browser: the partition filter and the sessions              *)

\* C29: whatever a poll of a session with a partition filter answers, the
\* first poll or a later one, holds messages of that partition only.
C29_PollsKeepToPartition ==
    \A run \in BagToSet(polls) :
        run.searchParams.partition # Undefined =>
            \A msgs \in Responses(run.body) : \A i \in 1 .. Len(msgs) :
                msgs[i].partition = run.searchParams.partition

\* a run that was started under the parameters of an earlier session
Stale(run) == ResetDeps(run.searchParams) # ResetDeps(searchParams)

\* C30: the response of a poll that was in flight when the session was
\* reset writes nothing into the new session: the ingest of a run started
\* under other parameters leaves the highest offsets and the buffer as the
\* reset and the polls of the new session made them.
C30_StaleRunWritesNothing ==
    [][\A run \in BagToSet(polls) : \A msgs \in Responses(run.body) :
          (Stale(run) /\ Ingest(run, msgs)) =>
              /\ highestOffsets' = highestOffsets
              /\ allMessages' = allMessages]_vars

=============================================================================
